---- MODULE Spec2Model ----
(***************************************************************************)
(* A model of the jcs package (RFC 8785 JSON canonicalization in Go).      *)
(*                                                                         *)
(* A []byte and a Go string are sequences of bytes 0..255, a []uint16 a    *)
(* sequence of units 0..65535.  A call returns a record [buf, err]; err is *)
(* "nil" or the name of one of the five sentinel errors.                   *)
(*                                                                         *)
(* A map[string]any is a sequence of entries [k, v] with pairwise distinct *)
(* keys: the order of the sequence is the order in which this run's        *)
(* `for k := range obj` visits the keys.                                   *)
(*                                                                         *)
(* build is the build tag that selects the appendUTF16 in use; dst and val *)
(* are the arguments of a caller, pc the function it called, out and err   *)
(* what the function returned, with the count when the function is         *)
(* appendUTF16 (whose buffers are of units).  calls holds the local variables of the     *)
(* appendObject invocations that run concurrently, scratch the []uint16    *)
(* arrays they allocated; both are empty when one caller runs alone.       *)
(***************************************************************************)
EXTENDS Integers, Sequences, FiniteSets, TLC

VARIABLES build, dst, val, pc, out, count, err, calls, scratch

vars == <<build, dst, val, pc, out, count, err, calls, scratch>>

----------------------------------------------------------------------------
(* The sentinel errors.                                                    *)

nil == "nil"

ErrUnsupportedType == "ErrUnsupportedType"

ErrNaN == "ErrNaN"

ErrInf == "ErrInf"

ErrInvalidUTF8 == "ErrInvalidUTF8"

ErrNumberOOR == "ErrNumberOOR"

Errors == {ErrUnsupportedType, ErrNaN, ErrInf, ErrInvalidUTF8, ErrNumberOOR}

----------------------------------------------------------------------------
(* unicode/utf8 as the package uses it.                                    *)

RuneSelf == 128

RuneError == 65533

MaxRune == 1114111

surrogateMin == 55296

surrogateMax == 57343

\* utf8.first[s0] & 7: the length the first byte announces; 1 marks both
\* ASCII and the bytes that can start no sequence (0x80-0xC1, 0xF5-0xFF).
firstSize(s0) ==
    IF s0 < 194 THEN 1
    ELSE IF s0 < 224 THEN 2
    ELSE IF s0 < 240 THEN 3
    ELSE IF s0 < 245 THEN 4
    ELSE 1

\* utf8.acceptRanges[first[s0]>>4]: the range the second byte must lie in.
acceptLo(s0) ==
    IF s0 = 224 THEN 160
    ELSE IF s0 = 240 THEN 144
    ELSE 128

acceptHi(s0) ==
    IF s0 = 237 THEN 159
    ELSE IF s0 = 244 THEN 143
    ELSE 191

isCont(b) == b >= 128 /\ b <= 191

\* utf8.DecodeRuneInString(s): <<rune, size>>.
DecodeRuneInString(s) ==
    IF Len(s) < 1 THEN <<RuneError, 0>>
    ELSE LET s0 == s[1]
             sz == firstSize(s0)
         IN  IF s0 < RuneSelf THEN <<s0, 1>>
             ELSE IF sz = 1 THEN <<RuneError, 1>>
             ELSE IF Len(s) < sz THEN <<RuneError, 1>>
             ELSE IF s[2] < acceptLo(s0) \/ acceptHi(s0) < s[2] THEN <<RuneError, 1>>
             ELSE IF sz = 2 THEN <<(s0 % 32) * 64 + (s[2] % 64), 2>>
             ELSE IF ~isCont(s[3]) THEN <<RuneError, 1>>
             ELSE IF sz = 3
                  THEN <<(s0 % 16) * 4096 + (s[2] % 64) * 64 + (s[3] % 64), 3>>
             ELSE IF ~isCont(s[4]) THEN <<RuneError, 1>>
             ELSE <<(s0 % 8) * 262144 + (s[2] % 64) * 4096
                        + (s[3] % 64) * 64 + (s[4] % 64), 4>>

\* utf8.ValidRune(r).
ValidRune(r) ==
    \/ 0 <= r /\ r < surrogateMin
    \/ surrogateMax < r /\ r <= MaxRune

----------------------------------------------------------------------------
(* string.go                                                               *)

hex == <<48, 49, 50, 51, 52, 53, 54, 55, 56, 57, 97, 98, 99, 100, 101, 102>>

\* The test of the fast path stopping below DEL.
isSafeASCII_noDel(c) == c < 127 /\ c >= 32 /\ c # 34 /\ c # 92

\* The test of the fast path: c < utf8.RuneSelf && c >= 0x20 && c != '"' && c != '\\'.
isSafeASCII(c) == c < RuneSelf /\ c >= 32 /\ c # 34 /\ c # 92

\* The inner loop of the fast path: the index of the first byte at or after
\* i (1-based) that is not safe ASCII, Len(s)+1 when there is none.
RECURSIVE safeRunEnd(_, _)
safeRunEnd(s, i) ==
    IF i <= Len(s) /\ isSafeASCII(s[i]) THEN safeRunEnd(s, i + 1) ELSE i

\* escapeASCII writing the carriage return as it writes the line feed.
escapeASCII_crAsLf(c) ==
    IF c = 34 \/ c = 92 THEN <<92, c>>
    ELSE IF c = 8 THEN <<92, 98>>
    ELSE IF c = 9 THEN <<92, 116>>
    ELSE IF c = 10 \/ c = 13 THEN <<92, 110>>
    ELSE IF c = 12 THEN <<92, 102>>
    ELSE <<92, 117, 48, 48, hex[(c \div 16) + 1], hex[(c % 16) + 1]>>

\* escapeASCII with the digits of \u00XX taken from "0123456789ABCDEF".
escapeASCII_upperHex(c) ==
    IF c = 34 \/ c = 92 THEN <<92, c>>
    ELSE IF c = 8 THEN <<92, 98>>
    ELSE IF c = 9 THEN <<92, 116>>
    ELSE IF c = 10 THEN <<92, 110>>
    ELSE IF c = 12 THEN <<92, 102>>
    ELSE IF c = 13 THEN <<92, 114>>
    ELSE <<92, 117, 48, 48,
           IF c \div 16 < 10 THEN 48 + (c \div 16) ELSE 55 + (c \div 16),
           IF c % 16 < 10 THEN 48 + (c % 16) ELSE 55 + (c % 16)>>

\* The switch of the ASCII slow path: the bytes appended for c.
escapeASCII(c) ==
    IF c = 34 \/ c = 92 THEN <<92, c>>
    ELSE IF c = 8 THEN <<92, 98>>
    ELSE IF c = 9 THEN <<92, 116>>
    ELSE IF c = 10 THEN <<92, 110>>
    ELSE IF c = 12 THEN <<92, 102>>
    ELSE IF c = 13 THEN <<92, 114>>
    ELSE <<92, 117, 48, 48, hex[(c \div 16) + 1], hex[(c % 16) + 1]>>

\* isLiteralFFFD without its test: every utf8.RuneError passes.
isLiteralFFFD_any(s, i, size) == TRUE

\* The test that lets the literal U+FFFD through: size == 3 and the bytes
\* EF BF BD at i.
isLiteralFFFD(s, i, size) ==
    size = 3 /\ s[i] = 239 /\ s[i + 1] = 191 /\ s[i + 2] = 189

\* The `for i := 0; i < len(s);` loop; i is 1-based here.
RECURSIVE appendStringLoop(_, _, _, _)
appendStringLoop(buf, dstLen, s, i) ==
    IF i > Len(s) THEN [buf |-> buf \o <<34>>, err |-> nil]
    ELSE LET c == s[i] IN
         IF isSafeASCII(c)
         THEN LET j == safeRunEnd(s, i + 1)
              IN  appendStringLoop(buf \o SubSeq(s, i, j - 1), dstLen, s, j)
         ELSE IF c < RuneSelf
         THEN appendStringLoop(buf \o escapeASCII(c), dstLen, s, i + 1)
         ELSE LET d    == DecodeRuneInString(SubSeq(s, i, Len(s)))
                  r    == d[1]
                  size == d[2]
              IN  IF r = RuneError /\ ~isLiteralFFFD(s, i, size)
                  THEN [buf |-> SubSeq(buf, 1, dstLen), err |-> ErrInvalidUTF8]
                  ELSE IF r >= surrogateMin /\ r <= surrogateMax
                  THEN [buf |-> SubSeq(buf, 1, dstLen), err |-> ErrInvalidUTF8]
                  ELSE appendStringLoop(buf \o SubSeq(s, i, i + size - 1),
                                        dstLen, s, i + size)

appendString(d, s) == appendStringLoop(d \o <<34>>, Len(d), s, 1)

----------------------------------------------------------------------------
(* UTF-16 lowering.  The repository holds two bodies of appendUTF16; a     *)
(* build links one of them, named by the variable `build`.                 *)

\* utf16.EncodeRune with the halves exchanged.
EncodeRune_swapped(r) ==
    IF r < 65536 \/ r > MaxRune THEN <<RuneError, RuneError>>
    ELSE <<56320 + ((r - 65536) % 1024), 55296 + (((r - 65536) \div 1024) % 1024)>>

\* utf16.EncodeRune(r): <<high, low>>.
EncodeRune(r) ==
    IF r < 65536 \/ r > MaxRune THEN <<RuneError, RuneError>>
    ELSE <<55296 + (((r - 65536) \div 1024) % 1024), 56320 + ((r - 65536) % 1024)>>

\* The body of both loops after the validity test: the units of rune r.
unitsOf(r) ==
    IF r < 65536 THEN <<r % 65536>>
    ELSE <<EncodeRune(r)[1] % 65536, EncodeRune(r)[2] % 65536>>

\* The loop of the body that decodes with utf8.DecodeRuneInString; i is 1-based.
RECURSIVE appendUTF16Loop(_, _, _, _)
appendUTF16Loop(buf, start, s, i) ==
    IF i > Len(s) THEN [buf |-> buf, n |-> Len(buf) - start, err |-> nil]
    ELSE LET d    == DecodeRuneInString(SubSeq(s, i, Len(s)))
             r    == d[1]
             size == d[2]
         IN  IF r = RuneError /\ size = 1
             THEN [buf |-> buf, n |-> 0, err |-> ErrInvalidUTF8]
             ELSE appendUTF16Loop(buf \o unitsOf(r), start, s, i + size)

appendUTF16(buf, s) == appendUTF16Loop(buf, Len(buf), s, 1)

\* The loop of the body that ranges over the string: `for _, r := range s`
\* yields RuneError and advances one byte at a malformed sequence.
RECURSIVE appendUTF16RangeLoop(_, _, _, _)
appendUTF16RangeLoop(buf, start, s, i) ==
    IF i > Len(s) THEN [buf |-> buf, n |-> Len(buf) - start, err |-> nil]
    ELSE LET d    == DecodeRuneInString(SubSeq(s, i, Len(s)))
             r    == d[1]
             size == d[2]
         IN  IF ~ValidRune(r)
             THEN [buf |-> buf, n |-> 0, err |-> ErrInvalidUTF8]
             ELSE appendUTF16RangeLoop(buf \o unitsOf(r), start, s, i + size)

appendUTF16_csu(buf, s) == appendUTF16RangeLoop(buf, Len(buf), s, 1)

Builds == {"utf16", "utf16_csu"}

\* The appendUTF16 that appendObject calls in this build.
lowerKey(buf, s) ==
    IF build = "utf16_csu" THEN appendUTF16_csu(buf, s) ELSE appendUTF16(buf, s)

----------------------------------------------------------------------------
(* appendObject: key lowering, the comparator and sort.Slice.              *)

\* The `for k := range obj` loop: lowers every key into the shared buffer,
\* in the order of iteration, and stops at the first key that fails.
RECURSIVE lowerKeys(_, _, _, _)
RECURSIVE keyLowered(_, _, _, _, _)
lowerKeys(obj, i, utf16buf, keys) ==
    IF i > Len(obj) THEN [utf16buf |-> utf16buf, keys |-> keys, err |-> nil]
    ELSE keyLowered(lowerKey(utf16buf, obj[i].k), obj, i, utf16buf, keys)

\* The loop body after appendUTF16 returned r for the i-th key.
keyLowered(r, obj, i, utf16buf, keys) ==
    IF r.err # nil THEN [utf16buf |-> r.buf, keys |-> keys, err |-> r.err]
    ELSE lowerKeys(obj, i + 1, r.buf,
                   Append(keys, [raw |-> obj[i].k, start |-> Len(utf16buf), len |-> r.n]))

\* The loop of the comparator over the common prefix of a and b; k is 1-based.
RECURSIVE lessUnits(_, _, _)
lessUnits(a, b, k) ==
    LET n == IF Len(a) < Len(b) THEN Len(a) ELSE Len(b)
    IN  IF k > n THEN Len(a) < Len(b)
        ELSE IF a[k] # b[k] THEN a[k] < b[k]
        ELSE lessUnits(a, b, k + 1)

\* The comparator with its operands exchanged.
less_swapped(utf16buf, x, y) ==
    lessUnits(SubSeq(utf16buf, y.start + 1, y.start + y.len),
              SubSeq(utf16buf, x.start + 1, x.start + x.len), 1)

\* The keys compared by their UTF-8 bytes.
less_bytes(utf16buf, x, y) == lessUnits(x.raw, y.raw, 1)

\* The less function given to sort.Slice, for key entries x and y.
less(utf16buf, x, y) ==
    lessUnits(SubSeq(utf16buf, x.start + 1, x.start + x.len),
              SubSeq(utf16buf, y.start + 1, y.start + y.len), 1)

\* The inner loop of sort's insertion sort: data[j] sinks while it is less
\* than its left neighbour.
RECURSIVE sinkLeft(_, _, _)
sinkLeft(utf16buf, data, j) ==
    IF j > 1 /\ less(utf16buf, data[j], data[j - 1])
    THEN sinkLeft(utf16buf,
                  [data EXCEPT ![j] = data[j - 1], ![j - 1] = data[j]], j - 1)
    ELSE data

RECURSIVE insertionSort(_, _, _)
insertionSort(utf16buf, data, i) ==
    IF i > Len(data) THEN data
    ELSE insertionSort(utf16buf, sinkLeft(utf16buf, data, i), i + 1)

\* The keys left in the order of iteration.
sortSlice_none(utf16buf, keys) == keys

\* sort.Slice(keys, less): below 13 elements the library sorts by insertion.
sortSlice(utf16buf, keys) == insertionSort(utf16buf, keys, 2)

\* obj[k]: the value the map holds for key k.
mapIndex(obj, k) == obj[CHOOSE i \in 1..Len(obj) : obj[i].k = k].v

----------------------------------------------------------------------------
(* Integers and doubles.  TLC's integers have 32 bits, so a natural number *)
(* that may exceed them (an int64, the 53-bit significand of a double) is  *)
(* a sequence of decimal digits, most significant first, <<0>> for zero    *)
(* and with no leading zero otherwise.                                     *)

zeros(n) == [i \in 1..n |-> 0]

\* a without its leading zeros.
RECURSIVE natTrim(_)
natTrim(a) == IF Len(a) > 1 /\ a[1] = 0 THEN natTrim(Tail(a)) ELSE a

\* -1, 0 or 1 as a is below, equal to or above b (equal lengths compare
\* digit by digit).
natCmp(a, b) ==
    IF Len(a) # Len(b) THEN (IF Len(a) < Len(b) THEN -1 ELSE 1)
    ELSE IF a = b THEN 0
    ELSE LET i == CHOOSE j \in 1..Len(a) :
                     a[j] # b[j] /\ \A h \in 1..(j - 1) : a[h] = b[h]
         IN  IF a[i] < b[i] THEN -1 ELSE 1

natLess(a, b) == natCmp(a, b) < 0

natLeq(a, b) == natCmp(a, b) <= 0

natIsZero(a) == a = <<0>>

natIsOdd(a) == a[Len(a)] % 2 = 1

\* 2 * a: the carry into a digit comes from its right neighbour alone.
natDouble(a) ==
    LET n == Len(a)
        d(i) == (2 * (IF i = 0 THEN 0 ELSE a[i])
                    + (IF i < n /\ a[i + 1] >= 5 THEN 1 ELSE 0)) % 10
    IN  natTrim([i \in 1..(n + 1) |-> d(i - 1)])

\* a \div 2: the remainder of a digit goes to its right neighbour alone.
natHalf(a) ==
    natTrim([i \in 1..Len(a) |->
                (a[i] + (IF i > 1 /\ a[i - 1] % 2 = 1 THEN 10 ELSE 0)) \div 2])

\* a + 1.
RECURSIVE natInc(_)
natInc(a) ==
    LET n == Len(a)
    IN  IF a[n] < 9 THEN [a EXCEPT ![n] = a[n] + 1]
        ELSE IF n = 1 THEN <<1, 0>>
        ELSE natInc(SubSeq(a, 1, n - 1)) \o <<0>>

\* a - 1, for a > 0.
RECURSIVE natDec(_)
natDec(a) ==
    LET n == Len(a)
    IN  IF a[n] > 0 THEN natTrim([a EXCEPT ![n] = a[n] - 1])
        ELSE natTrim(natDec(SubSeq(a, 1, n - 1)) \o <<9>>)

\* a * 10^k.
natShift(a, k) == IF natIsZero(a) THEN a ELSE a \o zeros(k)

\* The digits of a small natural number.
RECURSIVE natOfInt(_)
natOfInt(n) == IF n < 10 THEN <<n>> ELSE natOfInt(n \div 10) \o <<n % 10>>

\* Limbs.  A product a * 2^k or a * 5^k is computed over the limbs of a in
\* base 10^6 (most significant first): for c = 2^j or 5^j dividing 10^6, the
\* carry out of a limb l of the product by c is (l * c) \div 10^6 whatever
\* the carry into it, as (l * c) % 10^6 is a multiple of c and the carry in
\* is below c.
pow10(p) == <<1, 10, 100, 1000, 10000, 100000>>[p + 1]

toLimbs(a) ==
    LET n == Len(a)
        L == (n + 5) \div 6
        at(i) == IF i < 1 THEN 0 ELSE a[i]
        first(j) == n - 6 * (L - j + 1) + 1
    IN  [j \in 1..L |->
            100000 * at(first(j)) + 10000 * at(first(j) + 1)
                + 1000 * at(first(j) + 2) + 100 * at(first(j) + 3)
                + 10 * at(first(j) + 4) + at(first(j) + 5)]

fromLimbs(l) ==
    natTrim([i \in 1..(6 * Len(l)) |->
                (l[((i - 1) \div 6) + 1] \div pow10(5 - ((i - 1) % 6))) % 10])

\* l * c over the limbs, for c = 2^j or 5^j with j <= 6 and c <= 2000.
limbMul(l, c) ==
    LET L == Len(l)
        at(i) == IF i < 1 \/ i > L THEN 0 ELSE l[i]
        r == [i \in 1..(L + 1) |->
                 (at(i - 1) * c + ((at(i) * c) \div 1000000)) % 1000000]
    IN  IF r[1] = 0 THEN Tail(r) ELSE r

RECURSIVE limbPow2(_, _)
limbPow2(l, k) ==
    IF k = 0 \/ l = <<>> THEN l
    ELSE IF k >= 6 THEN limbPow2(limbMul(l, 64), k - 6)
    ELSE limbMul(l, <<2, 4, 8, 16, 32>>[k])

RECURSIVE limbPow5(_, _)
limbPow5(l, k) ==
    IF k = 0 \/ l = <<>> THEN l
    ELSE IF k >= 4 THEN limbPow5(limbMul(l, 625), k - 4)
    ELSE limbMul(l, <<5, 25, 125>>[k])

\* a * 2^k.
natMulPow2(a, k) ==
    IF k = 0 \/ natIsZero(a) THEN a ELSE fromLimbs(limbPow2(toLimbs(a), k))

\* a * 5^k.
natMulPow5(a, k) ==
    IF k = 0 \/ natIsZero(a) THEN a ELSE fromLimbs(limbPow5(toLimbs(a), k))

Two52 == natMulPow2(<<1>>, 52)

Two53 == natMulPow2(<<1>>, 53)

Two54 == natMulPow2(<<1>>, 54)

Two63 == natMulPow2(<<1>>, 63)

Two64 == natMulPow2(<<1>>, 64)

----------------------------------------------------------------------------
(* float64.  A double is [kind, neg, m, e]: kind "nan", "inf" or "fin";    *)
(* a finite one has the value (-1)^neg * m * 2^e with m = 0 and e = 0      *)
(* (zero of either sign) or 2^52 <= m < 2^53 (the model's doubles are      *)
(* normal: its exponents stay far from the subnormal range).               *)

NaN == [kind |-> "nan", neg |-> FALSE, m |-> <<0>>, e |-> 0]

Inf(neg) == [kind |-> "inf", neg |-> neg, m |-> <<0>>, e |-> 0]

Zero(neg) == [kind |-> "fin", neg |-> neg, m |-> <<0>>, e |-> 0]

\* Scale n (with binary exponent e) up, six doublings at a time, until
\* n >= 2^53 * 10^q.
RECURSIVE scaleUp(_, _, _)
scaleUp(n, e, q) ==
    IF natLeq(natShift(Two53, q), n) THEN [n |-> n, e |-> e]
    ELSE scaleUp(natMulPow2(n, 6), e - 6, q)

\* Scale n down until n < 2^54 * 10^q, remembering in `sticky` whether a
\* one bit was shifted out.
RECURSIVE scaleDown(_, _, _, _)
scaleDown(n, e, q, sticky) ==
    IF natLess(n, natShift(Two54, q)) THEN [n |-> n, e |-> e, sticky |-> sticky]
    ELSE scaleDown(natHalf(n), e + 1, q, sticky \/ natIsOdd(n))

\* The double of significand m1 <= 2^53 and exponent e + 1, renormalised
\* when rounding carried the significand up to 2^53.
normalise(neg, m1, e) ==
    IF m1 = Two53
    THEN [kind |-> "fin", neg |-> neg, m |-> Two52, e |-> e + 2]
    ELSE [kind |-> "fin", neg |-> neg, m |-> m1, e |-> e + 1]

\* Round the 54-bit int54 to 53 bits, to nearest and on a tie to even; rest
\* tells whether anything non-zero lies below int54.
roundHalfEven(neg, int54, rest, e) ==
    normalise(neg,
              IF natIsOdd(int54) /\ (rest \/ natIsOdd(natHalf(int54)))
              THEN natInc(natHalf(int54)) ELSE natHalf(int54),
              e)

\* The double of the scaled quotient dn: n / 10^q has 54 bits before the point.
roundScaled(neg, dn, q) ==
    roundHalfEven(neg, SubSeq(dn.n, 1, Len(dn.n) - q),
                  dn.sticky \/ SubSeq(dn.n, Len(dn.n) - q + 1, Len(dn.n)) # zeros(q),
                  dn.e)

scaleDownFrom(up, q) == scaleDown(up.n, up.e, q, FALSE)

\* The double nearest to s / 10^q (ties to the even significand), for
\* natural numbers s and q: what strconv.ParseFloat and the conversion
\* float64(v) of an integer compute.
nearestDouble(neg, s, q) ==
    IF natIsZero(s) THEN Zero(neg)
    ELSE roundScaled(neg, scaleDownFrom(scaleUp(s, 0, q), q), q)

----------------------------------------------------------------------------
(* appendNumber: the number formatter (ECMA-262 Number::toString).         *)

digitBytes(a) == [i \in 1..Len(a) |-> 48 + a[i]]

\* a without its trailing zeros, for a > 0.
stripZeros(a) ==
    LET last == CHOOSE i \in 1..Len(a) :
                    a[i] # 0 /\ \A j \in (i + 1)..Len(a) : a[j] = 0
    IN  SubSeq(a, 1, last)

\* A positive double and the two midpoints to its neighbours as natural
\* numbers x, lo, hi over the common scale 10^-q; the interval [lo, hi]
\* rounds to the double, its ends included when the significand is even.
boundaries(f) ==
    LET m4     == natMulPow2(f.m, 2)
        lo4    == IF f.m = Two52 THEN natDec(m4) ELSE natDec(natDec(m4))
        hi4    == natInc(natInc(m4))
        eb     == f.e - 2
        sc(a)  == IF eb >= 0 THEN natMulPow2(a, eb) ELSE natMulPow5(a, -eb)
    IN  [x |-> sc(m4), lo |-> sc(lo4), hi |-> sc(hi4),
         q |-> IF eb >= 0 THEN 0 ELSE -eb, closed |-> ~natIsOdd(f.m)]

inInterval(b, c) ==
    IF b.closed THEN natLeq(b.lo, c) /\ natLeq(c, b.hi)
    ELSE natLess(b.lo, c) /\ natLess(c, b.hi)

\* x cut to its first k digits, and the next number of k digits above it.
roundDown(x, k) == SubSeq(x, 1, k) \o zeros(Len(x) - k)

\* The next number above computed as the number below: the digits are cut,
\* never rounded up.
roundUp_cut(x, k) == SubSeq(x, 1, k) \o zeros(Len(x) - k)

roundUp(x, k) == natInc(SubSeq(x, 1, k)) \o zeros(Len(x) - k)

\* Whether x is nearer to roundUp(x, k) than to roundDown(x, k); a tie goes
\* to the even last digit.
upIsNearer(x, k) ==
    LET r    == SubSeq(x, k + 1, Len(x))
        half == <<5>> \o zeros(Len(x) - k - 1)
    IN  IF k = Len(x) THEN FALSE
        ELSE IF r = half THEN x[k] % 2 = 1
        ELSE r[1] >= 5

\* Whether some decimal of k digits lies in the interval b.
hasDecimal(b, k) ==
    inInterval(b, roundDown(b.x, k)) \/ inInterval(b, roundUp(b.x, k))

\* The least number of digits, from k on, of a decimal in the interval b.
RECURSIVE leastDigits(_, _)
leastDigits(b, k) ==
    IF k >= Len(b.x) \/ hasDecimal(b, k) THEN k ELSE leastDigits(b, k + 1)

\* The digits s (no trailing zero) and the point n of the decimal c over the
\* scale of b: c is 0.s * 10^n.
digitsAndPoint(b, c) == [s |-> stripZeros(c), n |-> Len(c) - b.q]

\* Of the decimals dn below and up above the exact value, the one in the
\* interval, the nearer one if both are.
nearerInside(b, k, dn, up) ==
    digitsAndPoint(b, IF ~inInterval(b, up) THEN dn
                      ELSE IF ~inInterval(b, dn) THEN up
                      ELSE IF upIsNearer(b.x, k) THEN up ELSE dn)

nearestOfLength(b, k) == nearerInside(b, k, roundDown(b.x, k), roundUp(b.x, k))

shortestIn(b) == nearestOfLength(b, leastDigits(b, 1))

\* The shortest decimal that rounds to f: [s, n], the digits s (no trailing
\* zero) of the decimal 0.s * 10^n nearest to f among those of least length.
shortest(f) == shortestIn(boundaries(f))

\* The layout with the plain range one power of ten too wide.
layout_wide(s, n) ==
    LET k == Len(s)
        e10 == n - 1
        expo == <<101, IF e10 < 0 THEN 45 ELSE 43>>
                    \o digitBytes(natOfInt(IF e10 < 0 THEN -e10 ELSE e10))
    IN  IF k <= n /\ n <= 22 THEN digitBytes(s) \o digitBytes(zeros(n - k))
        ELSE IF 0 < n /\ n <= 22
        THEN digitBytes(SubSeq(s, 1, n)) \o <<46>> \o digitBytes(SubSeq(s, n + 1, k))
        ELSE IF -6 < n /\ n <= 0
        THEN <<48, 46>> \o digitBytes(zeros(-n)) \o digitBytes(s)
        ELSE IF k = 1 THEN digitBytes(s) \o expo
        ELSE <<48 + s[1], 46>> \o digitBytes(SubSeq(s, 2, k)) \o expo

\* The text of the decimal 0.s * 10^n.
layout(s, n) ==
    LET k == Len(s)
        e10 == n - 1
        expo == <<101, IF e10 < 0 THEN 45 ELSE 43>>
                    \o digitBytes(natOfInt(IF e10 < 0 THEN -e10 ELSE e10))
    IN  IF k <= n /\ n <= 21 THEN digitBytes(s) \o digitBytes(zeros(n - k))
        ELSE IF 0 < n /\ n <= 21
        THEN digitBytes(SubSeq(s, 1, n)) \o <<46>> \o digitBytes(SubSeq(s, n + 1, k))
        ELSE IF -6 < n /\ n <= 0
        THEN <<48, 46>> \o digitBytes(zeros(-n)) \o digitBytes(s)
        ELSE IF k = 1 THEN digitBytes(s) \o expo
        ELSE <<48 + s[1], 46>> \o digitBytes(SubSeq(s, 2, k)) \o expo

layoutOf(d) == layout(d.s, d.n)

formatNumber(f) ==
    IF natIsZero(f.m) THEN <<48>>
    ELSE (IF f.neg THEN <<45>> ELSE <<>>) \o layoutOf(shortest(f))

\* appendNumber refusing a double whose magnitude is above 2^53.
appendNumber_ranged(d, f) ==
    IF f.kind = "nan" THEN [buf |-> d, err |-> ErrNaN]
    ELSE IF f.kind = "inf" THEN [buf |-> d, err |-> ErrInf]
    ELSE IF f.e >= 0 /\ natLess(Two53, natMulPow2(f.m, f.e))
    THEN [buf |-> d, err |-> ErrNumberOOR]
    ELSE [buf |-> d \o formatNumber(f), err |-> nil]

\* appendNumber refusing NaN alone.
appendNumber_nanOnly(d, f) ==
    IF f.kind = "nan" THEN [buf |-> d, err |-> ErrNaN]
    ELSE [buf |-> d \o formatNumber(f), err |-> nil]

appendNumber(d, f) ==
    IF f.kind = "nan" THEN [buf |-> d, err |-> ErrNaN]
    ELSE IF f.kind = "inf" THEN [buf |-> d, err |-> ErrInf]
    ELSE [buf |-> d \o formatNumber(f), err |-> nil]

----------------------------------------------------------------------------
(* Values.  A Go value is a record tagged with its dynamic type t:         *)
(*   [t |-> "nil"], [t |-> "bool", b], [t |-> "string", s],                *)
(*   [t |-> "float64" or "float32", f], an integer [t, neg, mag] of one of *)
(*   the ten integer types, a slice [t |-> "[]T", a] of tagged elements,   *)
(*   a time.Time [t, year .. sec, offset], [t |-> "map[string]any", m],    *)
(*   and, for any                                                          *)
(*   other tag, a value of a type the switch of Append has no case for.    *)

IntTypes == {"int", "int8", "int16", "int32", "int64",
             "uint", "uint8", "uint16", "uint32", "uint64"}

SliceTypes == {"[]int", "[]int8", "[]int16", "[]int32", "[]int64",
               "[]uint", "[]uint8", "[]uint16", "[]uint32", "[]uint64",
               "[]any", "[]bool", "[]string", "[]float32", "[]float64"}

\* The switch with the isNumberOOR test left out of the uint64 case.
rangeChecked_noUint64(t) == t \in {"int", "int64", "uint"}

\* The integer cases of the switch that test isNumberOOR before converting.
rangeChecked(t) == t \in {"int", "int64", "uint", "uint64"}

\* isNumberOOR(v): the magnitude of v exceeds 2^53 - 1.
isNumberOOR(v) == natLeq(Two53, v.mag)

\* float64(v) for an integer v.
float64OfInt(v) == nearestDouble(v.neg /\ ~natIsZero(v.mag), v.mag, 0)

\* n written with two digits.
pad2(n) == <<48 + ((n \div 10) % 10), 48 + (n % 10)>>

\* appendTime(dst, v): the instant in the RFC 3339 profile, which cannot
\* fail: date, "T", time, then "Z" or the offset from UTC.
appendTime(d, v) ==
    LET off == IF v.offset < 0 THEN -v.offset ELSE v.offset
    IN  d \o pad2(v.year \div 100) \o pad2(v.year % 100) \o <<45>> \o pad2(v.month)
          \o <<45>> \o pad2(v.day) \o <<84>> \o pad2(v.hour) \o <<58>> \o pad2(v.min)
          \o <<58>> \o pad2(v.sec)
          \o (IF v.offset = 0 THEN <<90>>
              ELSE <<IF v.offset < 0 THEN 45 ELSE 43>>
                       \o pad2(off \div 60) \o <<58>> \o pad2(off % 60))

\* The nil case matching every value that is nil, whatever its type.
isUntypedNil_anyNil(v) == v.t = "nil" \/ ("null" \in DOMAIN v /\ v.null)

\* `case nil` of the type switch: the interface holds no dynamic type.  A
\* nil map, slice, pointer or function has a dynamic type and is matched
\* by the case of that type, or by none.
isUntypedNil(v) == v.t = "nil"

RECURSIVE JcsAppend(_, _)
RECURSIVE appendSliceLoop(_, _, _, _)
RECURSIVE appendEntries(_, _, _, _, _)
RECURSIVE entryValue(_, _, _, _, _)
RECURSIVE entryDone(_, _, _, _, _)
RECURSIVE elemDone(_, _, _, _)

\* The buffer handed back as it is, not cut back.
rollback_none(buf, dstLen) == buf

\* dst[:dstLen]: the buffer cut back to the length it had on entry.
rollback(buf, dstLen) == SubSeq(buf, 1, dstLen)

\* The loop telling the first entry by the length of the buffer.
appendEntries_byLength(buf, dstLen, obj, keys, i) ==
    IF i > Len(keys) THEN [buf |-> buf \o <<125>>, err |-> nil]
    ELSE entryValue(appendString(IF Len(buf) > 1 THEN buf \o <<44>> ELSE buf, keys[i].raw),
                    dstLen, obj, keys, i)

\* The loop writing the comma before every entry, the first too.
appendEntries_commaFirst(buf, dstLen, obj, keys, i) ==
    IF i > Len(keys) THEN [buf |-> buf \o <<125>>, err |-> nil]
    ELSE entryValue(appendString(buf \o <<44>>, keys[i].raw), dstLen, obj, keys, i)

\* The `for i, k := range keys` loop of appendObject; i is 1-based.
appendEntries(buf, dstLen, obj, keys, i) ==
    IF i > Len(keys) THEN [buf |-> buf \o <<125>>, err |-> nil]
    ELSE entryValue(appendString(IF i > 1 THEN buf \o <<44>> ELSE buf, keys[i].raw),
                    dstLen, obj, keys, i)

\* The loop body after appendString returned key for the i-th key.
entryValue(key, dstLen, obj, keys, i) ==
    IF key.err # nil THEN [buf |-> rollback(key.buf, dstLen), err |-> key.err]
    ELSE entryDone(JcsAppend(key.buf \o <<58>>, mapIndex(obj, keys[i].raw)),
                   dstLen, obj, keys, i)

\* The loop body after Append returned elem for the value of the i-th key.
entryDone(elem, dstLen, obj, keys, i) ==
    IF elem.err # nil THEN [buf |-> rollback(elem.buf, dstLen), err |-> elem.err]
    ELSE appendEntries(elem.buf, dstLen, obj, keys, i + 1)

\* appendObject after the lowering loop returned `lowered`.
appendSorted(d, obj, lowered) ==
    IF lowered.err # nil
    THEN [buf |-> rollback(d \o <<123>>, Len(d)), err |-> lowered.err]
    ELSE appendEntries(d \o <<123>>, Len(d), obj,
                       sortSlice(lowered.utf16buf, lowered.keys), 1)

appendObject(d, obj) ==
    IF Len(obj) = 0 THEN [buf |-> d \o <<123, 125>>, err |-> nil]
    ELSE appendSorted(d, obj, lowerKeys(obj, 1, <<>>, <<>>))

\* The loop of appendSlice over the elements; i is 1-based.
appendSliceLoop(buf, dstLen, a, i) ==
    IF i > Len(a) THEN [buf |-> buf \o <<93>>, err |-> nil]
    ELSE elemDone(JcsAppend(IF i > 1 THEN buf \o <<44>> ELSE buf, a[i]), dstLen, a, i)

\* The loop body after Append returned elem for the i-th element.
elemDone(elem, dstLen, a, i) ==
    IF elem.err # nil THEN [buf |-> SubSeq(elem.buf, 1, dstLen), err |-> elem.err]
    ELSE appendSliceLoop(elem.buf, dstLen, a, i + 1)

\* appendSlice going through the elements from the last to the first.
appendSlice_reversed(d, a) ==
    appendSliceLoop(d \o <<91>>, Len(d), [i \in 1..Len(a) |-> a[Len(a) + 1 - i]], 1)

appendSlice(d, a) == appendSliceLoop(d \o <<91>>, Len(d), a, 1)

\* The default case with the value encoded as null instead of refused.
unsupported_null(d) == [buf |-> d \o <<110, 117, 108, 108>>, err |-> nil]

\* The default case of the switch: no case matches the dynamic type.
unsupported(d) == [buf |-> d, err |-> ErrUnsupportedType]

\* Append(dst, v).
JcsAppend(d, v) ==
    IF isUntypedNil(v) THEN [buf |-> d \o <<110, 117, 108, 108>>, err |-> nil]
    ELSE IF v.t = "bool"
    THEN [buf |-> d \o (IF v.b THEN <<116, 114, 117, 101>>
                               ELSE <<102, 97, 108, 115, 101>>), err |-> nil]
    ELSE IF v.t = "string" THEN appendString(d, v.s)
    ELSE IF v.t = "float64" THEN appendNumber(d, v.f)
    ELSE IF v.t = "float32" THEN JcsAppend(d, [t |-> "float64", f |-> v.f])
    ELSE IF v.t \in IntTypes
    THEN IF rangeChecked(v.t) /\ isNumberOOR(v)
         THEN [buf |-> d, err |-> ErrNumberOOR]
         ELSE JcsAppend(d, [t |-> "float64", f |-> float64OfInt(v)])
    ELSE IF v.t \in SliceTypes THEN appendSlice(d, v.a)
    ELSE IF v.t = "time.Time" THEN [buf |-> appendTime(d, v), err |-> nil]
    ELSE IF v.t = "map[string]any" THEN appendObject(d, v.m)
    ELSE unsupported(d)

----------------------------------------------------------------------------
(* The callers.  A caller holds a buffer dst and a value val, calls one of *)
(* the package's functions (pc names the function that returned) and gets  *)
(* back the buffer out and the error err.                                  *)

Dsts == {<<>>, <<91>>}

Strings(A, n) == UNION {[1..k -> A] : k \in 0..n}

MaxAsciiLen == 2

MaxStrLen == 4

\* Control bytes with and without a short escape, the two escaped
\* printable bytes, plain printable bytes and DEL.
AsciiBytes == {0, 8, 9, 10, 11, 12, 13, 31, 32, 34, 47, 92, 97, 126, 127}

\* The lead bytes of every length and the ends of the ranges a second or
\* later byte may lie in, with two ASCII bytes to mix in.
Utf8Bytes == {34, 97, 143, 144, 160, 189, 191, 192, 194, 224, 237, 239, 240,
              244, 255}

StringInputs(a, n) == Strings(AsciiBytes, a) \cup Strings(Utf8Bytes, n)

\* The call of function fn returns r to the caller.
Return(fn, r) ==
    /\ pc' = fn
    /\ out' = r.buf
    /\ err' = r.err
    /\ UNCHANGED <<build, dst, val, count, calls, scratch>>

CallAppend ==
    /\ pc = "ready"
    /\ Return("Append", JcsAppend(dst, val))

CallAppendString ==
    /\ pc = "ready"
    /\ val.t = "string"
    /\ Return("appendString", appendString(dst, val.s))

CallAppendObject ==
    /\ pc = "ready"
    /\ val.t = "map[string]any"
    /\ Return("appendObject", appendObject(dst, val.m))

InitString ==
    /\ build = "utf16"
    /\ dst \in Dsts
    /\ \E s \in StringInputs(MaxAsciiLen, MaxStrLen) : val = [t |-> "string", s |-> s]
    /\ pc = "ready"
    /\ out = <<>>
    /\ count = 0
    /\ err = nil
    /\ calls = <<>>
    /\ scratch = <<>>

NextString == CallAppendString \/ CallAppend

SpecString == InitString /\ [][NextString]_vars

----------------------------------------------------------------------------
(* ASCII strings for the callers of appendString: every ASCII byte alone   *)
(* and the bytes of AsciiBytes next to one another.                        *)

AsciiInputs(a) == Strings(0..(RuneSelf - 1), 1) \cup Strings(AsciiBytes, a)

InitAscii ==
    /\ build = "utf16"
    /\ dst \in Dsts
    /\ \E s \in AsciiInputs(MaxAsciiLen) : val = [t |-> "string", s |-> s]
    /\ pc = "ready"
    /\ out = <<>>
    /\ count = 0
    /\ err = nil
    /\ calls = <<>>
    /\ scratch = <<>>

NextAscii == CallAppendString \/ CallAppend

SpecAscii == InitAscii /\ [][NextAscii]_vars

----------------------------------------------------------------------------
(* The callers of appendUTF16: a buffer of units, empty or not, and a      *)
(* string, in either build.                                                *)

UnitDsts == {<<>>, <<65, 55357>>}

CallAppendUTF16 ==
    /\ pc = "ready"
    /\ val.t = "string"
    /\ pc' = "appendUTF16"
    /\ out' = lowerKey(dst, val.s).buf
    /\ count' = lowerKey(dst, val.s).n
    /\ err' = lowerKey(dst, val.s).err
    /\ UNCHANGED <<build, dst, val, calls, scratch>>

\* The bytes of Utf8Bytes that the decoding step tells apart: one ASCII
\* byte, continuation bytes, a lead byte of each length, and 0xFF.
LoweringBytes == {97, 143, 144, 160, 189, 191, 194, 224, 237, 239, 240, 255}

LoweringInputs(a, n) == Strings(AsciiBytes, a) \cup Strings(LoweringBytes, n)

InitUTF16 ==
    /\ build \in Builds
    /\ dst \in UnitDsts
    /\ \E s \in LoweringInputs(MaxAsciiLen, MaxStrLen) : val = [t |-> "string", s |-> s]
    /\ pc = "ready"
    /\ out = <<>>
    /\ count = 0
    /\ err = nil
    /\ calls = <<>>
    /\ scratch = <<>>

NextUTF16 == CallAppendUTF16

SpecUTF16 == InitUTF16 /\ [][NextUTF16]_vars

----------------------------------------------------------------------------
(* Numbers for the callers.                                                *)

IntBits == 64

MaxDecExp == 22

MaxBinExp == 72

\* The powers of two up to 2^bits and their predecessors (the ends of every
\* integer type and of the safe range), 2^53 + 1, and the powers of ten.
IntMags(bits) ==
    UNION {{natMulPow2(<<1>>, k), natDec(natMulPow2(<<1>>, k))} : k \in 0..bits}
        \cup {natInc(Two53)}
        \cup {natShift(<<1>>, k) : k \in 0..19}

\* The number of value bits of an integer type, and whether it is signed.
typeBits(t) ==
    IF t \in {"int8", "uint8"} THEN 8
    ELSE IF t \in {"int16", "uint16"} THEN 16
    ELSE IF t \in {"int32", "uint32"} THEN 32
    ELSE 64

isSigned(t) == t \in {"int", "int8", "int16", "int32", "int64"}

\* Whether the integer (neg, mag) is a value of type t.
fitsType(t, neg, mag) ==
    IF isSigned(t)
    THEN IF neg THEN ~natIsZero(mag) /\ natLeq(mag, natMulPow2(<<1>>, typeBits(t) - 1))
         ELSE natLess(mag, natMulPow2(<<1>>, typeBits(t) - 1))
    ELSE ~neg /\ natLess(mag, natMulPow2(<<1>>, typeBits(t)))

IntInputs(bits) ==
    {v \in [t : IntTypes, neg : BOOLEAN, mag : IntMags(bits)] :
        fitsType(v.t, v.neg, v.mag)}

\* Significands from both ends and the middle of [2^52, 2^53).
Significands ==
    {Two52, natInc(Two52), natDec(Two53), natMulPow2(<<3>>, 51),
     <<6, 0, 0, 4, 7, 9, 9, 5, 0, 3, 1, 6, 0, 6, 6, 1>>}

\* Short decimal literals, to be scaled by powers of ten.
DecimalDigits ==
    {<<1>>, <<5>>, <<9>>, <<1, 5>>, <<9, 9>>, <<1, 2, 3>>, <<9, 9, 9>>,
     <<1, 2, 3, 4, 5, 6, 7>>}

FiniteDoubles(bin, dec) ==
    {Zero(FALSE), Zero(TRUE)}
        \cup {[kind |-> "fin", neg |-> FALSE, m |-> m, e |-> e - 52] :
                 m \in Significands, e \in (-bin)..bin}
        \cup {nearestDouble(n, natShift(s, k), 0) :
                 n \in BOOLEAN, s \in DecimalDigits, k \in 0..dec}
        \cup {nearestDouble(n, s, k) :
                 n \in BOOLEAN, s \in DecimalDigits, k \in 1..dec}

NonFinite == {NaN, Inf(FALSE), Inf(TRUE)}

\* Values a float32 can hold: small integers and halves.
Float32s(dec) ==
    NonFinite \cup {Zero(FALSE), Zero(TRUE)}
        \cup {nearestDouble(n, s, q) :
                 n \in BOOLEAN, s \in {<<1>>, <<5>>, <<1, 5>>, <<2, 5, 5>>}, q \in 0..dec}

NumberInputs(bits, bin, dec) ==
    IntInputs(bits)
        \cup {[t |-> "float64", f |-> f] : f \in FiniteDoubles(bin, dec) \cup NonFinite}
        \cup {[t |-> "float32", f |-> f] : f \in Float32s(1)}

InitNumber ==
    /\ build = "utf16"
    /\ dst \in Dsts
    /\ val \in NumberInputs(IntBits, MaxBinExp, MaxDecExp)
    /\ pc = "ready"
    /\ out = <<>>
    /\ count = 0
    /\ err = nil
    /\ calls = <<>>
    /\ scratch = <<>>

NextNumber == CallAppend

SpecNumber == InitNumber /\ [][NextNumber]_vars

----------------------------------------------------------------------------
(* Nested values for the callers: leaves that encode, leaves that fail    *)
(* with each of the five errors, and arrays and objects around them.       *)

MaxDepth == 2

\* One value of each kind of leaf that Append encodes.
OkLeaves ==
    {[t |-> "nil"],
     [t |-> "bool", b |-> TRUE],
     [t |-> "string", s |-> <<97>>],
     [t |-> "float64", f |-> nearestDouble(FALSE, <<1, 5>>, 1)],
     [t |-> "int", neg |-> FALSE, mag |-> <<7>>],
     [t |-> "time.Time", year |-> 2024, month |-> 2, day |-> 29,
      hour |-> 23, min |-> 59, sec |-> 7, offset |-> 0]}

\* Leaves that Append refuses: a string that is not UTF-8, the non-finite
\* floats, an integer beyond the safe range, and values of types the switch
\* has no case for.
FailLeaves ==
    {[t |-> "string", s |-> <<255>>],
     [t |-> "float64", f |-> NaN],
     [t |-> "float64", f |-> Inf(FALSE)],
     [t |-> "float64", f |-> Inf(TRUE)],
     [t |-> "float32", f |-> NaN],
     [t |-> "float32", f |-> Inf(TRUE)],
     [t |-> "int64", neg |-> TRUE, mag |-> Two53],
     [t |-> "func()"],
     [t |-> "chan int"],
     [t |-> "struct {}"],
     [t |-> "*errors.errorString"],
     [t |-> "map[string]int"]}

\* The values put next to another value in an array or an object.
Siblings == {[t |-> "bool", b |-> TRUE], [t |-> "func()"]}

\* The element types that have a slice case of their own in the switch.
TypedSliceOf(t) ==
    IF t = "bool" THEN "[]bool"
    ELSE IF t = "string" THEN "[]string"
    ELSE IF t = "float64" THEN "[]float64"
    ELSE IF t = "float32" THEN "[]float32"
    ELSE IF t = "int" THEN "[]int"
    ELSE IF t = "int64" THEN "[]int64"
    ELSE "[]any"

Arr(a) == [t |-> "[]any", a |-> a]

Obj(m) == [t |-> "map[string]any", m |-> m]

\* The arrays and objects that hold x: alone, before and after a sibling
\* (the object's keys being ranged over in the reverse of their order), under
\* a key that is not UTF-8, and in a slice of x's own type.
Wrap(x) ==
    {Arr(<<x>>), [t |-> TypedSliceOf(x.t), a |-> <<x, x>>],
     Obj(<<[k |-> <<97>>, v |-> x]>>), Obj(<<[k |-> <<255>>, v |-> x]>>)}
        \cup UNION {{Arr(<<x, s>>), Arr(<<s, x>>),
                     Obj(<<[k |-> <<98>>, v |-> x], [k |-> <<97>>, v |-> s]>>),
                     Obj(<<[k |-> <<98>>, v |-> s], [k |-> <<97>>, v |-> x]>>)} :
                       s \in Siblings}

\* The values nested at most d deep.
RECURSIVE Trees(_)
Trees(d) ==
    IF d = 0 THEN OkLeaves \cup FailLeaves \cup {Arr(<<>>), Obj(<<>>)}
    ELSE Trees(d - 1) \cup UNION {Wrap(x) : x \in Trees(d - 1)}

Init ==
    /\ build \in Builds
    /\ dst \in Dsts
    /\ \E x \in Trees(MaxDepth - 1) : val \in {x} \cup Wrap(x)
    /\ pc = "ready"
    /\ out = <<>>
    /\ count = 0
    /\ err = nil
    /\ calls = <<>>
    /\ scratch = <<>>

Next == CallAppend \/ CallAppendObject \/ CallAppendString

Spec == Init /\ [][Next]_vars

----------------------------------------------------------------------------
(* Objects for the callers: maps over a set of keys, ranged over in every  *)
(* order a map can be ranged over in.                                      *)

MaxKeys == 3

\* The empty key, ASCII keys of which one is a prefix of another and one is
\* escaped when written, U+00E9, U+FF61 and U+1F600 (whose UTF-16 form is a
\* surrogate pair), and a key that is not UTF-8.
KeySet ==
    {<<>>, <<97>>, <<65>>, <<97, 97>>, <<34>>, <<195, 169>>, <<239, 189, 161>>,
     <<240, 159, 152, 128>>, <<255>>}

\* The sequences of at most n distinct keys: a map's keys in an order of
\* iteration.
KeySeqs(n) ==
    {s \in UNION {[1..k -> KeySet] : k \in 0..n} :
        \A i, j \in 1..Len(s) : i # j => s[i] # s[j]}

\* The map that holds under each key the key itself.
ObjOfKeys(s) ==
    Obj([i \in 1..Len(s) |->
            [k |-> s[i],
             v |-> IF s[i] = <<255>> THEN [t |-> "nil"] ELSE [t |-> "string", s |-> s[i]]]])

Str(s) == [t |-> "string", s |-> s]

\* {"b":"1","a":"2"} and {"a":"2","b":"1"}.
Examples ==
    {Obj(<<[k |-> <<98>>, v |-> Str(<<49>>)], [k |-> <<97>>, v |-> Str(<<50>>)]>>),
     Obj(<<[k |-> <<97>>, v |-> Str(<<50>>)], [k |-> <<98>>, v |-> Str(<<49>>)]>>)}

\* An object that holds o twice, once directly and once in another object.
Nest(o) ==
    Obj(<<[k |-> <<97, 97>>, v |-> o],
          [k |-> <<97>>, v |-> Obj(<<[k |-> <<>>, v |-> o]>>)]>>)

KeyInputs(n) ==
    {ObjOfKeys(s) : s \in KeySeqs(n)}
        \cup {Nest(ObjOfKeys(s)) : s \in KeySeqs(2)}
        \cup Examples

InitKeys ==
    /\ build \in Builds
    /\ dst \in Dsts
    /\ val \in KeyInputs(MaxKeys)
    /\ pc = "ready"
    /\ out = <<>>
    /\ count = 0
    /\ err = nil
    /\ calls = <<>>
    /\ scratch = <<>>

NextKeys == CallAppend \/ CallAppendObject

SpecKeys == InitKeys /\ [][NextKeys]_vars

----------------------------------------------------------------------------
(* Two appendObject invocations running concurrently, each on a buffer of  *)
(* its own.  An invocation p has the local variables calls[p]: its map     *)
(* obj, the buffer dst it was given, its position at, the loop index i,    *)
(* the key list keys, its buffer buf and the error err it returns.  A step *)
(* is one iteration of one of its loops.                                   *)

MaxConcKeys == 2

Calls == {1, 2}

\* One package-level scratch array for every invocation.
utf16Of_shared(p) == 1

\* utf16buf := make([]uint16, 0, len(obj)*8): the array invocation p
\* allocates for its scratch slice, no other invocation's.
utf16Of(p) == p

ConcKeys == {<<97>>, <<65>>, <<240, 159, 152, 128>>, <<255>>}

ConcInputs(n) ==
    {ObjOfKeys(s) : s \in {q \in UNION {[1..k -> ConcKeys] : k \in 0..n} :
                              \A i, j \in 1..Len(q) : i # j => q[i] # q[j]}}

\* The locals of an invocation given the buffer d and the map o.
Entered(d, o) ==
    [obj |-> o.m, dst |-> d, at |-> "ready", i |-> 0, keys |-> <<>>,
     buf |-> d, err |-> nil]

InitConc ==
    /\ build \in Builds
    /\ \E o1, o2 \in ConcInputs(MaxConcKeys) :
          calls = [p \in Calls |-> IF p = 1 THEN Entered(<<>>, o1)
                                   ELSE Entered(<<91>>, o2)]
    /\ scratch = [p \in Calls |-> <<>>]
    /\ dst = <<>>
    /\ val = [t |-> "nil"]
    /\ pc = "ready"
    /\ out = <<>>
    /\ count = 0
    /\ err = nil

\* Invocation p returns b and e.
Finish(p, b, e) ==
    /\ calls' = [calls EXCEPT ![p].at = "done", ![p].buf = b, ![p].err = e]
    /\ UNCHANGED <<build, dst, val, pc, out, count, err>>

\* Lines 9 to 19: '{', the return for an empty map, the two allocations.
Enter(p) ==
    /\ calls[p].at = "ready"
    /\ IF Len(calls[p].obj) = 0
       THEN Finish(p, calls[p].dst \o <<123, 125>>, nil) /\ UNCHANGED scratch
       ELSE /\ calls' = [calls EXCEPT ![p].at = "lower", ![p].i = 1,
                                      ![p].buf = calls[p].dst \o <<123>>]
            /\ scratch' = [scratch EXCEPT ![utf16Of(p)] = <<>>]
            /\ UNCHANGED <<build, dst, val, pc, out, count, err>>

\* The body of the lowering loop after appendUTF16 returned r.
KeyLoweredBy(p, r) ==
    /\ scratch' = [scratch EXCEPT ![utf16Of(p)] = r.buf]
    /\ IF r.err # nil
       THEN Finish(p, rollback(calls[p].buf, Len(calls[p].dst)), r.err)
       ELSE /\ calls' = [calls EXCEPT
                   ![p].i = calls[p].i + 1,
                   ![p].keys = Append(calls[p].keys,
                                      [raw |-> calls[p].obj[calls[p].i].k,
                                       start |-> Len(scratch[utf16Of(p)]),
                                       len |-> r.n])]
            /\ UNCHANGED <<build, dst, val, pc, out, count, err>>

\* One iteration of `for k := range obj`.
LowerKey(p) ==
    /\ calls[p].at = "lower"
    /\ calls[p].i <= Len(calls[p].obj)
    /\ KeyLoweredBy(p, lowerKey(scratch[utf16Of(p)], calls[p].obj[calls[p].i].k))

\* sort.Slice(keys, less), once the lowering loop is over.
SortKeys(p) ==
    /\ calls[p].at = "lower"
    /\ calls[p].i > Len(calls[p].obj)
    /\ calls' = [calls EXCEPT ![p].at = "write", ![p].i = 1,
                              ![p].keys = sortSlice(scratch[utf16Of(p)], calls[p].keys)]
    /\ UNCHANGED <<build, dst, val, pc, out, count, err, scratch>>

\* The body of the writing loop after Append returned elem for the value.
ValueWrittenBy(p, elem) ==
    IF elem.err # nil
    THEN Finish(p, rollback(elem.buf, Len(calls[p].dst)), elem.err)
    ELSE /\ calls' = [calls EXCEPT ![p].buf = elem.buf, ![p].i = calls[p].i + 1]
         /\ UNCHANGED <<build, dst, val, pc, out, count, err>>

\* The body of the writing loop after appendString returned key for the key.
KeyWrittenBy(p, key) ==
    IF key.err # nil
    THEN Finish(p, rollback(key.buf, Len(calls[p].dst)), key.err)
    ELSE ValueWrittenBy(p, JcsAppend(key.buf \o <<58>>,
                                     mapIndex(calls[p].obj,
                                              calls[p].keys[calls[p].i].raw)))

\* One iteration of `for i, k := range keys`.
WriteEntry(p) ==
    /\ calls[p].at = "write"
    /\ calls[p].i <= Len(calls[p].keys)
    /\ KeyWrittenBy(p, appendString(IF calls[p].i > 1 THEN calls[p].buf \o <<44>>
                                    ELSE calls[p].buf,
                                    calls[p].keys[calls[p].i].raw))
    /\ UNCHANGED scratch

\* Lines 72 and 73: '}' and the return.
Close(p) ==
    /\ calls[p].at = "write"
    /\ calls[p].i > Len(calls[p].keys)
    /\ Finish(p, calls[p].buf \o <<125>>, nil)
    /\ UNCHANGED scratch

NextConc ==
    \E p \in Calls :
        Enter(p) \/ LowerKey(p) \/ SortKeys(p) \/ WriteEntry(p) \/ Close(p)

SpecConc == InitConc /\ [][NextConc]_vars

----------------------------------------------------------------------------
(* Objects that cannot be encoded, for the callers: keys that are and are  *)
(* not UTF-8 over values that encode and values that fail with either of   *)
(* two errors, ranged over in every order.                                 *)

MaxFaultKeys == 2

\* Two ASCII keys, a byte that is not UTF-8, U+FFFD itself and U+1F600.
FaultKeys == {<<97>>, <<98>>, <<255>>, <<239, 191, 189>>, <<240, 159, 152, 128>>}

\* null, a value of a type with no case in the switch, a string that is
\* not UTF-8.
FaultValues == {[t |-> "nil"], [t |-> "func()"], [t |-> "string", s |-> <<255>>]}

FaultInputs(n) ==
    {Obj(m) : m \in {s \in UNION {[1..j -> [k : FaultKeys, v : FaultValues]] : j \in 0..n} :
                        \A i, j \in 1..Len(s) : i # j => s[i].k # s[j].k}}

InitFaults ==
    /\ build \in Builds
    /\ dst \in Dsts
    /\ val \in FaultInputs(MaxFaultKeys)
    /\ pc = "ready"
    /\ out = <<>>
    /\ count = 0
    /\ err = nil
    /\ calls = <<>>
    /\ scratch = <<>>

NextFaults == CallAppendObject \/ CallAppend

SpecFaults == InitFaults /\ [][NextFaults]_vars

----------------------------------------------------------------------------
(* Nil values for the callers.  A value that is nil carries the field      *)
(* null; a nil map or slice has no entries and no elements.                *)

\* The nil slice of each type of the switch and the nil map.
NilContainers ==
    {[t |-> s, a |-> <<>>, null |-> TRUE] : s \in SliceTypes}
        \cup {[t |-> "map[string]any", m |-> <<>>, null |-> TRUE]}

\* The same containers allocated and empty.
EmptyContainers ==
    {[t |-> s, a |-> <<>>] : s \in SliceTypes} \cup {Obj(<<>>)}

\* Nil values of types the switch has no case for.
TypedNils ==
    {[t |-> "*int", null |-> TRUE], [t |-> "func()", null |-> TRUE],
     [t |-> "chan int", null |-> TRUE], [t |-> "map[string]int", null |-> TRUE]}

\* The string and the key that spell null.
NullText == <<110, 117, 108, 108>>

NilLeaves ==
    NilContainers \cup EmptyContainers \cup TypedNils
        \cup {[t |-> "nil"], Str(NullText), [t |-> "bool", b |-> FALSE]}

\* x in an array, alone and after null, and in an object.
NilWrap(x) ==
    {Arr(<<x>>), Arr(<<[t |-> "nil"], x>>), Obj(<<[k |-> NullText, v |-> x]>>)}

NilInputs == NilLeaves \cup UNION {NilWrap(x) : x \in NilLeaves}

InitNil ==
    /\ build \in Builds
    /\ dst \in Dsts
    /\ val \in NilInputs
    /\ pc = "ready"
    /\ out = <<>>
    /\ count = 0
    /\ err = nil
    /\ calls = <<>>
    /\ scratch = <<>>

NextNil == CallAppend \/ CallAppendObject

SpecNil == InitNil /\ [][NextNil]_vars

----------------------------------------------------------------------------
(* One call of Append run a step at a time.  calls is the call stack, the  *)
(* frame of the running function last; a frame holds the function's name   *)
(* fn, its arguments and its position: at, and the index i of its loop.    *)
(* out is the byte buffer handed from call to call, scratch the utf16buf   *)
(* of the appendObject that is lowering its keys, err and count the error  *)
(* and the count the last call returned.                                   *)

MaxCallDepth == 2

\* The literal U+FFFD taken as a character that the loop never gets past.
stringIter_stuck(s, i) ==
    LET c    == s[i]
        j    == safeRunEnd(s, i + 1)
        d    == DecodeRuneInString(SubSeq(s, i, Len(s)))
        r    == d[1]
        size == d[2]
    IN  IF isSafeASCII(c) THEN [i |-> j, bytes |-> SubSeq(s, i, j - 1), err |-> nil]
        ELSE IF c < RuneSelf THEN [i |-> i + 1, bytes |-> escapeASCII(c), err |-> nil]
        ELSE IF r = RuneError /\ ~isLiteralFFFD(s, i, size)
        THEN [i |-> i, bytes |-> <<>>, err |-> ErrInvalidUTF8]
        ELSE IF r = RuneError THEN [i |-> i, bytes |-> <<>>, err |-> nil]
        ELSE IF r >= surrogateMin /\ r <= surrogateMax
        THEN [i |-> i, bytes |-> <<>>, err |-> ErrInvalidUTF8]
        ELSE [i |-> i + size, bytes |-> SubSeq(s, i, i + size - 1), err |-> nil]

\* One iteration of the loop of appendString at index i (1-based): the
\* index it goes on from, the bytes it appends, the error it returns with.
stringIter(s, i) ==
    LET c    == s[i]
        j    == safeRunEnd(s, i + 1)
        d    == DecodeRuneInString(SubSeq(s, i, Len(s)))
        r    == d[1]
        size == d[2]
    IN  IF isSafeASCII(c) THEN [i |-> j, bytes |-> SubSeq(s, i, j - 1), err |-> nil]
        ELSE IF c < RuneSelf THEN [i |-> i + 1, bytes |-> escapeASCII(c), err |-> nil]
        ELSE IF r = RuneError /\ ~isLiteralFFFD(s, i, size)
        THEN [i |-> i, bytes |-> <<>>, err |-> ErrInvalidUTF8]
        ELSE IF r >= surrogateMin /\ r <= surrogateMax
        THEN [i |-> i, bytes |-> <<>>, err |-> ErrInvalidUTF8]
        ELSE [i |-> i + size, bytes |-> SubSeq(s, i, i + size - 1), err |-> nil]

\* One iteration of the loop of the appendUTF16 of this build.
utf16Iter(s, i) ==
    LET d    == DecodeRuneInString(SubSeq(s, i, Len(s)))
        r    == d[1]
        size == d[2]
    IN  IF IF build = "utf16_csu" THEN ~ValidRune(r) ELSE r = RuneError /\ size = 1
        THEN [i |-> i, units |-> <<>>, err |-> ErrInvalidUTF8]
        ELSE [i |-> i + size, units |-> unitsOf(r), err |-> nil]

AppendFrame(v) == [fn |-> "Append", v |-> v, at |-> "entry"]

StringFrame(s, dstLen) ==
    [fn |-> "appendString", s |-> s, dstLen |-> dstLen, at |-> "entry", i |-> 1]

UTF16Frame(s, start) ==
    [fn |-> "appendUTF16", s |-> s, start |-> start, at |-> "loop", i |-> 1]

ObjectFrame(obj, dstLen) ==
    [fn |-> "appendObject", obj |-> obj, dstLen |-> dstLen, at |-> "entry", i |-> 1,
     start |-> 0, keys |-> <<>>]

SliceFrame(a, dstLen) ==
    [fn |-> "appendSlice", a |-> a, dstLen |-> dstLen, at |-> "entry", i |-> 1]

\* The running frame and the frames of its callers.
Top == calls[Len(calls)]

Below == SubSeq(calls, 1, Len(calls) - 1)

\* What a step may change.
cur == [calls |-> calls, out |-> out, err |-> err, scratch |-> scratch, count |-> count]

\* The running function goes on as frame f.
goesOn(f) == [cur EXCEPT !.calls = Below \o <<f>>]

\* The running function, going on as frame f, calls the function of frame g.
callsFrom(f, g) == [cur EXCEPT !.calls = Below \o <<f, g>>]

\* The running function returns buffer b and error e.
returns(b, e) == [cur EXCEPT !.calls = Below, !.out = b, !.err = e]

\* A step of Append: the type switch, each case calling or returning, and
\* the return of what the called function returned.
appendStep(f) ==
    IF f.at = "called" THEN returns(out, err)
    ELSE IF f.v.t = "string"
    THEN callsFrom([f EXCEPT !.at = "called"], StringFrame(f.v.s, Len(out)))
    ELSE IF f.v.t = "float32"
    THEN callsFrom([f EXCEPT !.at = "called"], AppendFrame([t |-> "float64", f |-> f.v.f]))
    ELSE IF f.v.t \in IntTypes
    THEN IF rangeChecked(f.v.t) /\ isNumberOOR(f.v) THEN returns(out, ErrNumberOOR)
         ELSE callsFrom([f EXCEPT !.at = "called"],
                        AppendFrame([t |-> "float64", f |-> float64OfInt(f.v)]))
    ELSE IF f.v.t \in SliceTypes
    THEN callsFrom([f EXCEPT !.at = "called"], SliceFrame(f.v.a, Len(out)))
    ELSE IF f.v.t = "map[string]any"
    THEN callsFrom([f EXCEPT !.at = "called"], ObjectFrame(f.v.m, Len(out)))
    ELSE returns(JcsAppend(out, f.v).buf, JcsAppend(out, f.v).err)

\* A step of appendString: the opening quote, one iteration of the loop, or
\* the closing quote.
appendStringStep(f, it) ==
    IF f.at = "entry" THEN [goesOn([f EXCEPT !.at = "loop"]) EXCEPT !.out = out \o <<34>>]
    ELSE IF f.i > Len(f.s) THEN returns(out \o <<34>>, nil)
    ELSE IF it.err # nil THEN returns(rollback(out, f.dstLen), it.err)
    ELSE [goesOn([f EXCEPT !.i = it.i]) EXCEPT !.out = out \o it.bytes]

\* A step of appendUTF16: one iteration of the loop, or the return.
appendUTF16Step(f, it) ==
    IF f.i > Len(f.s)
    THEN [returns(out, nil) EXCEPT !.count = Len(scratch) - f.start]
    ELSE IF it.err # nil THEN [returns(out, it.err) EXCEPT !.count = 0]
    ELSE [goesOn([f EXCEPT !.i = it.i]) EXCEPT !.scratch = scratch \o it.units]

\* A step of appendObject.
appendObjectStep(f) ==
    IF f.at = "entry"
    THEN IF Len(f.obj) = 0 THEN returns(out \o <<123, 125>>, nil)
         ELSE [goesOn([f EXCEPT !.at = "lower"]) EXCEPT !.out = out \o <<123>>,
                                                         !.scratch = <<>>]
    ELSE IF f.at = "lower"
    THEN IF f.i > Len(f.obj)
         THEN goesOn([f EXCEPT !.at = "write", !.i = 1,
                               !.keys = sortSlice(scratch, f.keys)])
         ELSE callsFrom([f EXCEPT !.at = "lowered", !.start = Len(scratch)],
                        UTF16Frame(f.obj[f.i].k, Len(scratch)))
    ELSE IF f.at = "lowered"
    THEN IF err # nil THEN returns(rollback(out, f.dstLen), err)
         ELSE goesOn([f EXCEPT !.at = "lower", !.i = f.i + 1,
                               !.keys = Append(f.keys, [raw |-> f.obj[f.i].k,
                                                        start |-> f.start, len |-> count])])
    ELSE IF f.at = "write"
    THEN IF f.i > Len(f.keys) THEN returns(out \o <<125>>, nil)
         ELSE [callsFrom([f EXCEPT !.at = "keyed"],
                         StringFrame(f.keys[f.i].raw, Len(out) + (IF f.i > 1 THEN 1 ELSE 0)))
                  EXCEPT !.out = IF f.i > 1 THEN out \o <<44>> ELSE out]
    ELSE IF f.at = "keyed"
    THEN IF err # nil THEN returns(rollback(out, f.dstLen), err)
         ELSE [callsFrom([f EXCEPT !.at = "valued"],
                         AppendFrame(mapIndex(f.obj, f.keys[f.i].raw)))
                  EXCEPT !.out = out \o <<58>>]
    ELSE IF err # nil THEN returns(rollback(out, f.dstLen), err)
    ELSE goesOn([f EXCEPT !.at = "write", !.i = f.i + 1])

\* A step of appendSlice.
appendSliceStep(f) ==
    IF f.at = "entry" THEN [goesOn([f EXCEPT !.at = "loop"]) EXCEPT !.out = out \o <<91>>]
    ELSE IF f.at = "loop"
    THEN IF f.i > Len(f.a) THEN returns(out \o <<93>>, nil)
         ELSE [callsFrom([f EXCEPT !.at = "called"], AppendFrame(f.a[f.i]))
                  EXCEPT !.out = IF f.i > 1 THEN out \o <<44>> ELSE out]
    ELSE IF err # nil THEN returns(rollback(out, f.dstLen), err)
    ELSE goesOn([f EXCEPT !.at = "loop", !.i = f.i + 1])

\* The step leaves the program as r.
Step(r) ==
    /\ calls' = r.calls
    /\ out' = r.out
    /\ err' = r.err
    /\ scratch' = r.scratch
    /\ count' = r.count
    /\ pc' = IF r.calls = <<>> THEN "done" ELSE "running"
    /\ UNCHANGED <<build, dst, val>>

StepAppend ==
    /\ pc = "running"
    /\ Top.fn = "Append"
    /\ Step(appendStep(Top))

StepString ==
    /\ pc = "running"
    /\ Top.fn = "appendString"
    /\ Step(appendStringStep(Top, IF Top.at = "loop" /\ Top.i <= Len(Top.s)
                                  THEN stringIter(Top.s, Top.i)
                                  ELSE [i |-> Top.i, bytes |-> <<>>, err |-> nil]))

StepUTF16 ==
    /\ pc = "running"
    /\ Top.fn = "appendUTF16"
    /\ Step(appendUTF16Step(Top, IF Top.i <= Len(Top.s) THEN utf16Iter(Top.s, Top.i)
                                 ELSE [i |-> Top.i, units |-> <<>>, err |-> nil]))

StepObject ==
    /\ pc = "running"
    /\ Top.fn = "appendObject"
    /\ Step(appendObjectStep(Top))

StepSlice ==
    /\ pc = "running"
    /\ Top.fn = "appendSlice"
    /\ Step(appendSliceStep(Top))

\* Strings that take each path of the loops, numbers that are converted,
\* and a value that is refused.
StepLeaves ==
    {[t |-> "bool", b |-> TRUE], Str(<<97, 34>>), Str(<<239, 191, 189>>),
     Str(<<97, 255>>), Str(<<240, 159, 152, 128, 97>>), Str(<<237, 160, 128>>),
     [t |-> "int", neg |-> FALSE, mag |-> <<0>>],
     [t |-> "uint64", neg |-> FALSE, mag |-> Two53],
     [t |-> "float32", f |-> NaN],
     [t |-> "float64", f |-> Zero(TRUE)],
     [t |-> "func()"]}

\* x in arrays and in objects whose keys take each path of the lowering.
StepWrap(x) ==
    {Arr(<<Str(<<239, 191, 189>>), x>>),
     Obj(<<[k |-> <<239, 191, 189>>, v |-> x],
           [k |-> <<240, 159, 152, 128>>, v |-> [t |-> "bool", b |-> TRUE]]>>),
     Obj(<<[k |-> <<97>>, v |-> x], [k |-> <<255>>, v |-> x]>>)}

RECURSIVE StepInputs(_)
StepInputs(d) ==
    IF d = 0 THEN StepLeaves \cup {Arr(<<>>), Obj(<<>>)}
    ELSE StepInputs(d - 1) \cup UNION {StepWrap(x) : x \in StepInputs(d - 1)}

InitSteps ==
    /\ build \in Builds
    /\ dst = <<91>>
    /\ \E x \in StepInputs(MaxCallDepth - 1) : val \in {x} \cup StepWrap(x)
    /\ calls = <<AppendFrame(val)>>
    /\ pc = "running"
    /\ out = dst
    /\ count = 0
    /\ err = nil
    /\ scratch = <<>>

NextSteps == StepAppend \/ StepString \/ StepUTF16 \/ StepObject \/ StepSlice

\* The goroutine that called Append runs on until the call returns.
SpecSteps == InitSteps /\ [][NextSteps]_vars /\ WF_vars(NextSteps)

----------------------------------------------------------------------------
(* One appendSlice invocation, an iteration of its loop at a time.  Its    *)
(* local variables are calls[1]: the slice a, the buffer dst it was given, *)
(* its position at, the loop index i, its buffer buf and the error err it  *)
(* returns.                                                                *)

MaxElems == 3

\* Elements that encode and elements that fail, each with another error.
SliceElems ==
    {[t |-> "bool", b |-> TRUE], Str(<<97>>), Str(<<255>>),
     [t |-> "float64", f |-> NaN], [t |-> "func()"],
     Arr(<<[t |-> "float32", f |-> Inf(TRUE)]>>)}

SliceInputs(k) == {Arr(a) : a \in UNION {[1..j -> SliceElems] : j \in 0..k}}

SliceEntered(d, v) ==
    [a |-> v.a, dst |-> d, at |-> "ready", i |-> 0, buf |-> d, err |-> nil]

InitSlice ==
    /\ build = "utf16"
    /\ \E d \in Dsts, v \in SliceInputs(MaxElems) : calls = <<SliceEntered(d, v)>>
    /\ scratch = <<>>
    /\ dst = <<>>
    /\ val = [t |-> "nil"]
    /\ pc = "ready"
    /\ out = <<>>
    /\ count = 0
    /\ err = nil

\* The invocation appends '[' and enters its loop.
OpenSlice ==
    /\ calls[1].at = "ready"
    /\ calls' = [calls EXCEPT ![1].at = "loop", ![1].i = 1,
                              ![1].buf = calls[1].dst \o <<91>>]
    /\ UNCHANGED <<build, dst, val, pc, out, count, err, scratch>>

\* The loop going on to the next element after one that failed.
ElemAppended_goesOn(elem) ==
    IF elem.err # nil
    THEN calls' = [calls EXCEPT ![1].i = calls[1].i + 1, ![1].err = elem.err]
    ELSE calls' = [calls EXCEPT ![1].buf = elem.buf, ![1].i = calls[1].i + 1]

\* The body of the loop after Append returned elem for the element: the
\* first failure ends the invocation, the buffer cut back.
ElemAppended(elem) ==
    IF elem.err # nil
    THEN calls' = [calls EXCEPT ![1].at = "done", ![1].err = elem.err,
                                ![1].buf = SubSeq(elem.buf, 1, Len(calls[1].dst))]
    ELSE calls' = [calls EXCEPT ![1].buf = elem.buf, ![1].i = calls[1].i + 1]

\* One iteration of the loop over the elements.
AppendElem ==
    /\ calls[1].at = "loop"
    /\ calls[1].i <= Len(calls[1].a)
    /\ ElemAppended(JcsAppend(IF calls[1].i > 1 THEN calls[1].buf \o <<44>>
                              ELSE calls[1].buf,
                              calls[1].a[calls[1].i]))
    /\ UNCHANGED <<build, dst, val, pc, out, count, err, scratch>>

\* The loop is over: ']' and the return.
CloseSlice ==
    /\ calls[1].at = "loop"
    /\ calls[1].i > Len(calls[1].a)
    /\ calls' = [calls EXCEPT ![1].at = "done", ![1].buf = calls[1].buf \o <<93>>]
    /\ UNCHANGED <<build, dst, val, pc, out, count, err, scratch>>

NextSlice == OpenSlice \/ AppendElem \/ CloseSlice

SpecSlice == InitSlice /\ [][NextSlice]_vars

----------------------------------------------------------------------------
(* UTF-8 and JSON strings as RFC 3629 and RFC 8785 define them, for the    *)
(* properties below; none of this is the package's code.                   *)

\* The length of the sequence a first byte announces by its leading bits
\* (0xxxxxxx, 110xxxxx, 1110xxxx, 11110xxx), 0 for any other byte.
leadLen(b) ==
    IF b < 128 THEN 1
    ELSE IF b \div 32 = 6 THEN 2
    ELSE IF b \div 16 = 14 THEN 3
    ELSE IF b \div 8 = 30 THEN 4
    ELSE 0

\* The payload bits of the n bytes of s at i.
payload(s, i, n) ==
    IF n = 1 THEN s[i]
    ELSE IF n = 2 THEN (s[i] % 32) * 64 + (s[i + 1] % 64)
    ELSE IF n = 3 THEN (s[i] % 16) * 4096 + (s[i + 1] % 64) * 64 + (s[i + 2] % 64)
    ELSE (s[i] % 8) * 262144 + (s[i + 1] % 64) * 4096
             + (s[i + 2] % 64) * 64 + (s[i + 3] % 64)

\* The least scalar value whose shortest encoding has n bytes.
leastOfLen(n) == IF n = 1 THEN 0 ELSE IF n = 2 THEN 128 ELSE IF n = 3 THEN 2048 ELSE 65536

IsScalar(c) == 0 <= c /\ c <= 1114111 /\ ~(55296 <= c /\ c <= 57343)

\* The n bytes of s at i are the encoding of a scalar value: all there,
\* continuation bytes 10xxxxxx, shortest form, no surrogate, at most U+10FFFF.
EncodesScalar(s, i, n) ==
    /\ n >= 1
    /\ i + n - 1 <= Len(s)
    /\ \A j \in 1..(n - 1) : s[i + j] \div 64 = 2
    /\ payload(s, i, n) >= leastOfLen(n)
    /\ IsScalar(payload(s, i, n))

\* The scalar values of s from byte i on, <<-1>> at the end of the result
\* when the bytes from some point on are not well formed.
RECURSIVE ScalarsFrom(_, _)
ScalarsFrom(s, i) ==
    IF i > Len(s) THEN <<>>
    ELSE LET n == leadLen(s[i])
         IN  IF EncodesScalar(s, i, n)
             THEN <<payload(s, i, n)>> \o ScalarsFrom(s, i + n)
             ELSE <<-1>>

Scalars(s) == ScalarsFrom(s, 1)

WellFormedUTF8(s) == \A i \in 1..Len(Scalars(s)) : Scalars(s)[i] >= 0

\* The UTF-8 encoding of scalar value c.
EncodeUTF8(c) ==
    IF c < 128 THEN <<c>>
    ELSE IF c < 2048 THEN <<192 + (c \div 64), 128 + (c % 64)>>
    ELSE IF c < 65536
    THEN <<224 + (c \div 4096), 128 + ((c \div 64) % 64), 128 + (c % 64)>>
    ELSE <<240 + (c \div 262144), 128 + ((c \div 4096) % 64),
           128 + ((c \div 64) % 64), 128 + (c % 64)>>

LowerHexDigit(n) == IF n < 10 THEN 48 + n ELSE 87 + n

\* The canonical form of one character inside a JSON string (RFC 8785,
\* section 3.2.2.2); DEL and all other ASCII is written as it is.
CanonChar(c) ==
    IF c = 34 THEN <<92, 34>>
    ELSE IF c = 92 THEN <<92, 92>>
    ELSE IF c = 8 THEN <<92, 98>>
    ELSE IF c = 9 THEN <<92, 116>>
    ELSE IF c = 10 THEN <<92, 110>>
    ELSE IF c = 12 THEN <<92, 102>>
    ELSE IF c = 13 THEN <<92, 114>>
    ELSE IF c < 32 THEN <<92, 117, 48, 48, LowerHexDigit(c \div 16), LowerHexDigit(c % 16)>>
    ELSE EncodeUTF8(c)

RECURSIVE CanonChars(_, _)
CanonChars(cs, i) ==
    IF i > Len(cs) THEN <<>> ELSE CanonChar(cs[i]) \o CanonChars(cs, i + 1)

\* The canonical JSON string of the well-formed s.
CanonString(s) == <<34>> \o CanonChars(Scalars(s), 1) \o <<34>>

----------------------------------------------------------------------------
(* JSON number texts as RFC 8259 and ECMA-262 read them, for the           *)
(* properties below; none of this is the package's code.                   *)

\* What the call appended to dst.
appended == SubSeq(out, Len(dst) + 1, Len(out))

\* The first position of byte b in s, or 0.
IndexOf(s, b) ==
    IF \E i \in 1..Len(s) : s[i] = b
    THEN CHOOSE i \in 1..Len(s) : s[i] = b /\ \A j \in 1..(i - 1) : s[j] # b
    ELSE 0

IsDigits(s) == s # <<>> /\ \A i \in 1..Len(s) : s[i] \in 48..57

DigitsOf(s) == [i \in 1..Len(s) |-> s[i] - 48]

\* The value of a short digit text as an integer.
RECURSIVE IntOf(_)
IntOf(s) == IF s = <<>> THEN 0 ELSE 10 * IntOf(SubSeq(s, 1, Len(s) - 1)) + (s[Len(s)] - 48)

\* A number text split into sign, integer part, fraction, and exponent
\* (sign byte and digits), the absent parts empty.
NumberParts(txt) ==
    LET neg  == txt # <<>> /\ txt[1] = 45
        body == IF neg THEN Tail(txt) ELSE txt
        ePos == IndexOf(body, 101)
        mant == IF ePos = 0 THEN body ELSE SubSeq(body, 1, ePos - 1)
        expo == IF ePos = 0 THEN <<>> ELSE SubSeq(body, ePos + 1, Len(body))
        dot  == IndexOf(mant, 46)
    IN  [neg  |-> neg,
         int  |-> IF dot = 0 THEN mant ELSE SubSeq(mant, 1, dot - 1),
         dot  |-> dot # 0,
         frac |-> IF dot = 0 THEN <<>> ELSE SubSeq(mant, dot + 1, Len(mant)),
         hasExp  |-> ePos # 0,
         expSign |-> IF expo = <<>> THEN <<>> ELSE SubSeq(expo, 1, 1),
         expDigits |-> IF expo = <<>> THEN <<>> ELSE Tail(expo)]

\* Plain notation: digits without a leading zero, then, for a value that is
\* not integral, a point and the fraction without a trailing zero.
IsPlain(p) ==
    /\ ~p.hasExp
    /\ IsDigits(p.int) /\ (Len(p.int) = 1 \/ p.int[1] # 48)
    /\ p.dot => (IsDigits(p.frac) /\ p.frac[Len(p.frac)] # 48)

\* Scientific notation: one non-zero digit, an optional fraction without a
\* trailing zero, `e`, an explicit sign, the exponent without a leading zero.
IsScientific(p) ==
    /\ p.hasExp
    /\ Len(p.int) = 1 /\ p.int[1] \in 49..57
    /\ p.dot => (IsDigits(p.frac) /\ p.frac[Len(p.frac)] # 48)
    /\ p.expSign \in {<<43>>, <<45>>}
    /\ IsDigits(p.expDigits) /\ p.expDigits[1] # 48

\* The decimal exponent of a non-zero number text: the power of ten of its
\* first non-zero digit.
DecimalExponent(p) ==
    IF p.hasExp THEN (IF p.expSign = <<45>> THEN -IntOf(p.expDigits) ELSE IntOf(p.expDigits))
    ELSE IF p.int # <<48>> THEN Len(p.int) - 1
    ELSE -(CHOOSE i \in 1..Len(p.frac) :
              p.frac[i] # 48 /\ \A j \in 1..(i - 1) : p.frac[j] = 48)

\* The double a number text denotes: the nearest to its decimal value.
TextValue(txt) ==
    LET p == NumberParts(txt)
        digits == natTrim(DigitsOf(p.int \o p.frac))
        e10 == (IF p.hasExp
                THEN (IF p.expSign = <<45>> THEN -IntOf(p.expDigits) ELSE IntOf(p.expDigits))
                ELSE 0) - Len(p.frac)
    IN  IF e10 >= 0 THEN nearestDouble(p.neg, natShift(digits, e10), 0)
        ELSE nearestDouble(p.neg, digits, -e10)

\* The significant digits of a number text: no leading and no trailing zero.
SignificantDigits(txt) ==
    LET p == NumberParts(txt)
        d == natTrim(DigitsOf(p.int \o p.frac))
    IN  IF natIsZero(d) THEN d
        ELSE SubSeq(d, 1, CHOOSE i \in 1..Len(d) :
                              d[i] # 0 /\ \A j \in (i + 1)..Len(d) : d[j] = 0)

\* The exact value of a positive double as the natural number x over 10^q.
ExactDecimal(f) ==
    IF f.e >= 0 THEN [x |-> natMulPow2(f.m, f.e), q |-> 0]
    ELSE [x |-> natMulPow5(f.m, -f.e), q |-> -f.e]

\* Whether no decimal of fewer than k significant digits denotes the double
\* f: if one did, so would the decimal of k - 1 digits next below or next
\* above the exact value of f.
NoShorterThan(f, k) ==
    \/ k = 1
    \/ LET d == ExactDecimal(f)
           below == SubSeq(d.x, 1, k - 1) \o zeros(Len(d.x) - (k - 1))
           above == natInc(SubSeq(d.x, 1, k - 1)) \o zeros(Len(d.x) - (k - 1))
       IN  /\ nearestDouble(f.neg, below, d.q) # f
           /\ nearestDouble(f.neg, above, d.q) # f

IsNegativeZero(f) == f.kind = "fin" /\ natIsZero(f.m) /\ f.neg

----------------------------------------------------------------------------
(* The properties.                                                         *)

\* C5: for every well-formed UTF-8 string s, appendString succeeds and
\* appends '"', the canonical form of each character of s in order (the
\* two-character escapes of '"', '\', \b, \t, \n, \f, \r, \u00xx in lowercase
\* hex for the other bytes below 0x20, every other ASCII byte and every
\* non-ASCII scalar value as its own UTF-8 bytes), then '"'.
C5_StringEscaping ==
    (pc = "appendString" /\ WellFormedUTF8(val.s))
        => (err = nil /\ out = dst \o CanonString(val.s))

\* An escaped quote, a non-ASCII scalar value and a plain letter, appended
\* to a buffer that already holds a byte.
C5_Witness ==
    /\ pc = "appendString"
    /\ val.s = <<34, 194, 191, 97>>
    /\ dst = <<91>>
    /\ err = nil
    /\ out = <<91, 34, 92, 34, 194, 191, 97, 34>>

\* C6: appendString returns ErrInvalidUTF8 exactly when s is not well-formed
\* UTF-8 (wherever in s the malformed bytes are), it returns no other error,
\* the buffer then is the one of entry, and the literal EF BF BD is accepted
\* and copied.
C6_InvalidUTF8 ==
    pc = "appendString"
        => /\ err \in {nil, ErrInvalidUTF8}
           /\ (err = ErrInvalidUTF8) <=> ~WellFormedUTF8(val.s)
           /\ err = ErrInvalidUTF8 => out = dst
           /\ val.s = <<239, 191, 189>> => out = dst \o <<34, 239, 191, 189, 34>>

\* An encoded surrogate after a valid character, rejected with the buffer
\* cut back to the byte it held.
C6_Witness ==
    /\ pc = "appendString"
    /\ val.s = <<97, 237, 160, 191>>
    /\ dst = <<91>>
    /\ err = ErrInvalidUTF8
    /\ out = <<91>>

\* C4: an int, int64, uint or uint64 returns ErrNumberOOR, appending
\* nothing, exactly when its magnitude exceeds 2^53 - 1; the eight narrow
\* integer types never do; an accepted integer is appended as its decimal
\* digits after an optional minus sign.
C4_IntegerEncoding ==
    (pc = "Append" /\ val.t \in IntTypes)
        => LET wide == val.t \in {"int", "int64", "uint", "uint64"}
               big  == natLess(natDec(Two53), val.mag)
           IN  /\ err \in {nil, ErrNumberOOR}
               /\ (err = ErrNumberOOR) <=> (wide /\ big)
               /\ err = ErrNumberOOR => out = dst
               /\ err = nil => out = dst \o (IF val.neg THEN <<45>> ELSE <<>>)
                                          \o digitBytes(val.mag)

C4_Witness ==
    /\ pc = "Append" /\ dst = <<91>>
    /\ val = [t |-> "uint64", neg |-> FALSE, mag |-> Two53]
    /\ err = ErrNumberOOR /\ out = <<91>>

\* C7 as stated: for every finite float64 the appended text denotes exactly
\* that double, sign of zero included, and no decimal of fewer significant
\* digits does.
C7_AsStated ==
    (pc = "Append" /\ val.t = "float64" /\ val.f.kind = "fin")
        => /\ err = nil
           /\ TextValue(appended) = val.f
           /\ NoShorterThan(val.f, Len(SignificantDigits(appended)))

\* C7: for every finite float64 other than negative zero the appended text
\* denotes exactly that double and no decimal of fewer significant digits
\* does; negative zero is appended as 0.
C7_RoundTrip ==
    (pc = "Append" /\ val.t = "float64" /\ val.f.kind = "fin")
        => /\ err = nil
           /\ IsNegativeZero(val.f) => appended = <<48>>
           /\ ~IsNegativeZero(val.f)
                  => /\ TextValue(appended) = val.f
                     /\ NoShorterThan(val.f, Len(SignificantDigits(appended)))

C7_Witness ==
    /\ pc = "Append" /\ dst = <<>> /\ err = nil
    /\ val = [t |-> "float64", f |-> nearestDouble(FALSE, <<1>>, 1)]
    /\ out = <<48, 46, 49>>

\* C8: a finite non-zero number whose decimal exponent e has -6 <= e < 21 is
\* appended in plain notation, no decimal point for an integral value, any
\* other in scientific notation with one digit before the point, a
\* lowercase e, an explicit sign and no leading zero in the exponent; a
\* zero of either sign is appended as 0.
C8_Notation ==
    (pc = "Append" /\ val.t \in {"float64", "float32"} /\ val.f.kind = "fin")
        => LET p == NumberParts(appended)
               e == DecimalExponent(p)
           IN  /\ err = nil
               /\ natIsZero(val.f.m) => appended = <<48>>
               /\ ~natIsZero(val.f.m)
                      => /\ p.neg = val.f.neg
                         /\ IsPlain(p) \/ IsScientific(p)
                         /\ IsPlain(p) <=> (-6 <= e /\ e < 21)

C8_Witness ==
    /\ pc = "Append" /\ dst = <<>> /\ err = nil
    /\ val = [t |-> "float64", f |-> nearestDouble(FALSE, natShift(<<1>>, 21), 0)]
    /\ out = <<49, 101, 43, 50, 49>>


----------------------------------------------------------------------------
(* Nested values as the contract reads them, for the properties below;     *)
(* none of this is the package's code.                                     *)

\* The error a string earns on its own.
StringFaults(s) == IF WellFormedUTF8(s) THEN {} ELSE {ErrInvalidUTF8}

\* The errors the parts of v earn on their own: every key and every value
\* at any depth that could not be encoded if it stood alone.
RECURSIVE Faults(_)
Faults(v) ==
    IF v.t \in {"nil", "bool", "time.Time"} THEN {}
    ELSE IF v.t = "string" THEN StringFaults(v.s)
    ELSE IF v.t \in {"float64", "float32"}
    THEN IF v.f.kind = "nan" THEN {ErrNaN}
         ELSE IF v.f.kind = "inf" THEN {ErrInf} ELSE {}
    ELSE IF v.t \in IntTypes
    THEN IF typeBits(v.t) = 64 /\ ~natLess(v.mag, Two53) THEN {ErrNumberOOR} ELSE {}
    ELSE IF v.t \in SliceTypes
    THEN UNION {Faults(v.a[i]) : i \in 1..Len(v.a)}
    ELSE IF v.t = "map[string]any"
    THEN UNION {StringFaults(v.m[i].k) \cup Faults(v.m[i].v) : i \in 1..Len(v.m)}
    ELSE {ErrUnsupportedType}

IsContainer(v) == v.t \in SliceTypes \cup {"map[string]any"}

IsNonFinite(v, kind) == v.t \in {"float64", "float32"} /\ v.f.kind = kind

\* C1: whenever a call returns one of the five errors, the buffer returned
\* is the buffer of entry, byte for byte, also when the failure is inside
\* nested arrays and objects after brackets, keys, separators and earlier
\* siblings were appended.
C1_Rollback ==
    (pc # "ready" /\ err # nil) => (err \in Errors /\ out = dst)

\* An object whose second entry is an array that fails at its second element.
C1_Witness ==
    /\ pc = "Append"
    /\ val = Obj(<<[k |-> <<98>>, v |-> Arr(<<[t |-> "bool", b |-> TRUE],
                                              [t |-> "float64", f |-> NaN]>>)],
                   [k |-> <<97>>, v |-> [t |-> "bool", b |-> TRUE]]>>)
    /\ dst = <<91>>
    /\ err = ErrNaN
    /\ out = <<91>>

C10_AsStated ==
    (pc = "Append" /\ ErrUnsupportedType \in Faults(val))
        => (err = ErrUnsupportedType /\ out = dst)

\* C10: a value of an unsupported type fails with ErrUnsupportedType, the
\* buffer unchanged; an array or object that holds one at any depth fails as
\* a whole and appends nothing, with ErrUnsupportedType unless another of
\* its keys or values fails with an error of its own.
C10_Unsupported ==
    (pc = "Append" /\ ErrUnsupportedType \in Faults(val))
        => /\ out = dst
           /\ err \in Faults(val)
           /\ ~IsContainer(val) => err = ErrUnsupportedType
           /\ Faults(val) = {ErrUnsupportedType} => err = ErrUnsupportedType

\* A func two levels down, after a sibling that was already appended.
C10_Witness ==
    /\ pc = "Append"
    /\ val = Arr(<<[t |-> "bool", b |-> TRUE],
                   Obj(<<[k |-> <<97>>, v |-> [t |-> "func()"]]>>)>>)
    /\ dst = <<91>>
    /\ err = ErrUnsupportedType
    /\ out = <<91>>


----------------------------------------------------------------------------
(* Objects as RFC 8785 orders them, for the properties below; none of this *)
(* is the package's code.                                                  *)

\* The UTF-16 code units of the scalar values cs from the i-th on.
RECURSIVE Utf16From(_, _)
Utf16From(cs, i) ==
    IF i > Len(cs) THEN <<>>
    ELSE (IF cs[i] < 65536 THEN <<cs[i]>>
          ELSE <<55296 + ((cs[i] - 65536) \div 1024), 56320 + ((cs[i] - 65536) % 1024)>>)
             \o Utf16From(cs, i + 1)

\* The UTF-16 form of the well-formed s.
Utf16Of(s) == Utf16From(Scalars(s), 1)

\* a sorts before b: a is a proper prefix of b, or the first unit in which
\* they differ is smaller in a.
UnitLess(a, b) ==
    \/ Len(a) < Len(b) /\ SubSeq(b, 1, Len(a)) = a
    \/ \E i \in 1..Len(a) :
          /\ i <= Len(b)
          /\ a[i] < b[i]
          /\ \A j \in 1..(i - 1) : a[j] = b[j]

\* The orders n entries can stand in.
Orders(n) == {q \in [1..n -> 1..n] : \A i, j \in 1..n : i # j => q[i] # q[j]}

\* p puts the unit sequences u in strictly increasing order.
Increasing(u, p) == \A i, j \in 1..Len(u) : i < j => UnitLess(u[p[i]], u[p[j]])

\* The order of the entries of m in which the keys strictly increase.
KeyOrderOf(u) == CHOOSE p \in Orders(Len(u)) : Increasing(u, p)

KeyOrder(m) == KeyOrderOf([i \in 1..Len(m) |-> Utf16Of(m[i].k)])

\* Every key of every object in v is well-formed UTF-8.
RECURSIVE KeysValid(_)
KeysValid(v) ==
    IF v.t = "map[string]any"
    THEN \A i \in 1..Len(v.m) : WellFormedUTF8(v.m[i].k) /\ KeysValid(v.m[i].v)
    ELSE TRUE

\* The canonical text of v, for the values the objects above hold.
RECURSIVE Canon(_)
RECURSIVE CanonEntries(_, _, _)
Canon(v) ==
    IF v.t = "nil" THEN <<110, 117, 108, 108>>
    ELSE IF v.t = "string" THEN CanonString(v.s)
    ELSE <<123>> \o CanonEntries(v.m, KeyOrder(v.m), 1) \o <<125>>

CanonEntries(m, p, i) ==
    IF i > Len(m) THEN <<>>
    ELSE (IF i > 1 THEN <<44>> ELSE <<>>)
            \o CanonString(m[p[i]].k) \o <<58>> \o Canon(m[p[i]].v)
            \o CanonEntries(m, p, i + 1)

\* The same logical value with the keys of its maps ranged over in any
\* order: the entries of a map in every order, each value reordered within.
RECURSIVE Reorders(_)
RECURSIVE ReorderedValues(_, _)
ReorderedValues(m, i) ==
    IF i > Len(m) THEN {<<>>}
    ELSE {<<w>> \o rest : w \in Reorders(m[i].v), rest \in ReorderedValues(m, i + 1)}

Reordered(m, w, p) == Obj([i \in 1..Len(m) |-> [k |-> m[p[i]].k, v |-> w[p[i]]]])

Reorders(v) ==
    IF v.t = "map[string]any"
    THEN {Reordered(v.m, x[1], x[2]) :
             x \in ReorderedValues(v.m, 1) \X Orders(Len(v.m))}
    ELSE {v}

\* C2: an object whose keys are valid, at any depth, is written with its
\* entries in strictly increasing order of the UTF-16 code units of the raw
\* keys (first differing unit decides, a proper prefix comes first), not in
\* the order of the UTF-8 bytes, the code points or the escaped keys.
C2_KeyOrdering ==
    (pc # "ready" /\ KeysValid(val))
        => (err = nil /\ out = dst \o Canon(val))

\* U+1F600 (D83D DE00 in UTF-16) is written before U+FF61, though its code
\* point and its UTF-8 bytes are the larger, and the quote before A, though
\* its escaped form starts with the larger byte.
C2_Witness ==
    /\ pc = "Append"
    /\ val = ObjOfKeys(<<<<239, 189, 161>>, <<240, 159, 152, 128>>, <<34>>>>)
    /\ dst = <<>>
    /\ err = nil
    /\ out = <<123, 34, 92, 34, 34, 58, 34, 92, 34, 34, 44,
               34, 240, 159, 152, 128, 34, 58, 34, 240, 159, 152, 128, 34, 44,
               34, 239, 189, 161, 34, 58, 34, 239, 189, 161, 34, 125>>

\* C3: a call on the same logical value with the keys of its maps ranged
\* over in any other order returns the same bytes and the same error.
C3_Determinism ==
    pc = "Append"
        => \A w \in Reorders(val) : JcsAppend(dst, w) = [buf |-> out, err |-> err]

\* {"b":"1","a":"2"} gives {"a":"2","b":"1"}.
C3_Witness ==
    /\ pc = "Append"
    /\ val = Obj(<<[k |-> <<98>>, v |-> Str(<<49>>)], [k |-> <<97>>, v |-> Str(<<50>>)]>>)
    /\ dst = <<>>
    /\ err = nil
    /\ out = <<123, 34, 97, 34, 58, 34, 50, 34, 44, 34, 98, 34, 58, 34, 49, 34, 125>>


\* C11: on success appendObject appends '{', one entry for each key of the
\* map (every key once, in some order), each written as the escaped key, ':'
\* and the canonical value, with one ',' between two entries and none before
\* the first or after the last, then '}', and nothing else; an empty map
\* gives {}.
C11_ObjectStructure ==
    (pc = "appendObject" /\ err = nil)
        => /\ \E p \in Orders(Len(val.m)) :
                  out = dst \o <<123>> \o CanonEntries(val.m, p, 1) \o <<125>>
           /\ val.m = <<>> => out = dst \o <<123, 125>>

\* Three entries after a buffer that held a byte.
C11_Witness ==
    /\ pc = "appendObject"
    /\ val = ObjOfKeys(<<<<97, 97>>, <<>>, <<97>>>>)
    /\ dst = <<91>>
    /\ err = nil
    /\ out = <<91, 123, 34, 34, 58, 34, 34, 44, 34, 97, 34, 58, 34, 97, 34, 44,
               34, 97, 97, 34, 58, 34, 97, 97, 34, 125>>


----------------------------------------------------------------------------
(* Arrays as the contract reads them.                                      *)

\* The text of v: for a slice '[', the texts of its elements in index order
\* with ',' between them, and ']'; for any other value what Append writes
\* for it on its own.
RECURSIVE Text(_)
RECURSIVE TextElems(_, _)
Text(v) ==
    IF v.t \in SliceTypes THEN <<91>> \o TextElems(v.a, 1) \o <<93>>
    ELSE JcsAppend(<<>>, v).buf

TextElems(a, i) ==
    IF i > Len(a) THEN <<>>
    ELSE (IF i > 1 THEN <<44>> ELSE <<>>) \o Text(a[i]) \o TextElems(a, i + 1)

\* C12: a slice all of whose parts can be encoded is written as '[', its
\* elements in index order with single commas between them, ']' (slices
\* nested in it the same way), and an empty slice as [].
C12_SequenceOrder ==
    (pc = "Append" /\ val.t \in SliceTypes)
        => /\ Faults(val) = {} => (err = nil /\ out = dst \o Text(val))
           /\ err = nil => out = dst \o Text(val)
           /\ val.a = <<>> => (err = nil /\ out = dst \o <<91, 93>>)

\* [[1.5,true],true] keeps its order.
C12_Witness ==
    /\ pc = "Append"
    /\ val = Arr(<<Arr(<<[t |-> "float64", f |-> nearestDouble(FALSE, <<1, 5>>, 1)],
                         [t |-> "bool", b |-> TRUE]>>),
                   [t |-> "bool", b |-> TRUE]>>)
    /\ dst = <<>>
    /\ err = nil
    /\ out = <<91, 91, 49, 46, 53, 44, 116, 114, 117, 101, 93, 44,
               116, 114, 117, 101, 93>>


----------------------------------------------------------------------------
(* The order keys are written in, by the plane of their first character.   *)

\* The entries of val were written in the order p.
WrittenIn(p) == out = dst \o <<123>> \o CanonEntries(val.m, p, 1) \o <<125>>

\* The first scalar value of the key of entry i of val, -1 for the empty key.
FirstScalar(i) == IF val.m[i].k = <<>> THEN -1 ELSE Scalars(val.m[i].k)[1]

IsSupplementary(c) == c >= 65536

\* C13 as stated: every key that starts with a character of the BMP is
\* written before every key that starts with a supplementary character.
C13_AsStated ==
    (pc = "appendObject" /\ err = nil)
        => \A p \in Orders(Len(val.m)) :
              WrittenIn(p)
                  => \A i, j \in 1..Len(val.m) :
                        (/\ 0 <= FirstScalar(p[i])
                         /\ FirstScalar(p[i]) < 65536
                         /\ IsSupplementary(FirstScalar(p[j]))) => i < j

\* C13: a key that starts with a BMP character below U+D800 is written
\* before, and one that starts with a BMP character from U+E000 on after,
\* every key that starts with a supplementary character (whose first unit is
\* a surrogate, D800 to DBFF).
C13_SurrogateOrder ==
    (pc = "appendObject" /\ err = nil)
        => /\ \E p \in Orders(Len(val.m)) : WrittenIn(p)
           /\ \A p \in Orders(Len(val.m)) :
                 WrittenIn(p)
                     => \A i, j \in 1..Len(val.m) :
                           IsSupplementary(FirstScalar(p[j]))
                               => /\ (/\ 0 <= FirstScalar(p[i])
                                      /\ FirstScalar(p[i]) < 55296) => i < j
                                  /\ (/\ 57344 <= FirstScalar(p[i])
                                      /\ FirstScalar(p[i]) < 65536) => j < i

\* "a", then U+1F600, then U+FF61.
C13_Witness ==
    /\ pc = "appendObject"
    /\ val = ObjOfKeys(<<<<239, 189, 161>>, <<240, 159, 152, 128>>, <<97>>>>)
    /\ dst = <<>>
    /\ err = nil
    /\ out = <<123, 34, 97, 34, 58, 34, 97, 34, 44,
               34, 240, 159, 152, 128, 34, 58, 34, 240, 159, 152, 128, 34, 44,
               34, 239, 189, 161, 34, 58, 34, 239, 189, 161, 34, 125>>


----------------------------------------------------------------------------
(* The safe range and the floating-point types.                            *)

\* The magnitude of the finite double f is larger than 2^53.
AboveTwo53(f) ==
    f.kind = "fin" /\ f.e >= 0 /\ natLess(Two53, natMulPow2(f.m, f.e))

\* The magnitude of the number val is larger than 2^53.
IsBigNumber ==
    IF val.t \in IntTypes THEN natLess(Two53, val.mag)
    ELSE val.t \in {"float64", "float32"} /\ AboveTwo53(val.f)

----------------------------------------------------------------------------
(* A JSON string decoder as RFC 8259 section 7 defines one; none of this   *)
(* is the package's code.  A text that is not a JSON string decodes to a   *)
(* sequence that holds -1.                                                 *)

IsHexDigit(b) == (48 <= b /\ b <= 57) \/ (65 <= b /\ b <= 70) \/ (97 <= b /\ b <= 102)

HexValue(b) == IF b <= 57 THEN b - 48 ELSE IF b <= 70 THEN b - 55 ELSE b - 87

\* The four hex digits of t at i are there.
HasHex4(t, i) == i + 3 < Len(t) /\ \A j \in 0..3 : IsHexDigit(t[i + j])

Hex4(t, i) ==
    4096 * HexValue(t[i]) + 256 * HexValue(t[i + 1])
        + 16 * HexValue(t[i + 2]) + HexValue(t[i + 3])

\* The character a two-character escape stands for, -1 if it is none.
Unescaped(b) ==
    IF b = 34 \/ b = 92 \/ b = 47 THEN b
    ELSE IF b = 98 THEN 8
    ELSE IF b = 102 THEN 12
    ELSE IF b = 110 THEN 10
    ELSE IF b = 114 THEN 13
    ELSE IF b = 116 THEN 9
    ELSE -1

\* The bytes the text t stands for from position i up to its closing quote.
RECURSIVE JsonChars(_, _)
RECURSIVE JsonEscape(_, _)
RECURSIVE JsonUnit(_, _, _)
JsonChars(t, i) ==
    IF i >= Len(t) THEN <<>>
    ELSE IF t[i] = 34 \/ t[i] < 32 THEN <<-1>>
    ELSE IF t[i] = 92 THEN JsonEscape(t, i + 1)
    ELSE <<t[i]>> \o JsonChars(t, i + 1)

\* After a backslash: a two-character escape or \u and four hex digits.
JsonEscape(t, i) ==
    IF i >= Len(t) THEN <<-1>>
    ELSE IF t[i] = 117
    THEN IF HasHex4(t, i + 1) THEN JsonUnit(t, i + 5, Hex4(t, i + 1)) ELSE <<-1>>
    ELSE <<Unescaped(t[i])>> \o JsonChars(t, i + 1)

\* After \uXXXX with value u: a scalar value, or the high half of a pair
\* that the next escape completes.
JsonUnit(t, i, u) ==
    IF u < 55296 \/ u > 57343 THEN EncodeUTF8(u) \o JsonChars(t, i)
    ELSE IF /\ u < 56320
            /\ i + 1 < Len(t) /\ t[i] = 92 /\ t[i + 1] = 117
            /\ HasHex4(t, i + 2)
            /\ 56320 <= Hex4(t, i + 2) /\ Hex4(t, i + 2) <= 57343
    THEN EncodeUTF8(65536 + (u - 55296) * 1024 + (Hex4(t, i + 2) - 56320))
            \o JsonChars(t, i + 6)
    ELSE <<-1>>

JsonDecode(t) ==
    IF Len(t) < 2 \/ t[1] # 34 \/ t[Len(t)] # 34 THEN <<-1>> ELSE JsonChars(t, 2)

\* C15: for every well-formed UTF-8 string s, what appendString appended
\* decodes as a JSON string to exactly s, and encoding the decoded string
\* again gives the same bytes (so no two strings share an encoding).
C15_StringRoundTrip ==
    (pc = "appendString" /\ WellFormedUTF8(val.s))
        => /\ err = nil
           /\ JsonDecode(appended) = val.s
           /\ appendString(dst, JsonDecode(appended)) = [buf |-> out, err |-> nil]

\* A carriage return and a backslash.
C15_Witness ==
    /\ pc = "appendString"
    /\ val.s = <<13, 92>>
    /\ dst = <<>>
    /\ err = nil
    /\ out = <<34, 92, 114, 92, 92, 34>>


----------------------------------------------------------------------------
(* Concurrent invocations.                                                 *)

\* What invocation p returns when it runs alone.
Alone(p) == JcsAppend(calls[p].dst, Obj(calls[p].obj))

\* The span of key entry k lies in the scratch array of invocation p and
\* holds the units of the key.
SpanIntact(p, k) ==
    /\ k.start + k.len <= Len(scratch[utf16Of(p)])
    /\ SubSeq(scratch[utf16Of(p)], k.start + 1, k.start + k.len)
           = lowerKey(<<>>, k.raw).buf

\* C16: in every interleaving of the steps of two invocations that were
\* given different buffers, the steps of one leave the key list and the
\* scratch units of the other as they were, and each returns the buffer and
\* the error it returns alone.
C16_Concurrent ==
    \A p \in Calls :
        /\ calls[p].at \in {"lower", "write"}
              => \A j \in 1..Len(calls[p].keys) : SpanIntact(p, calls[p].keys[j])
        /\ calls[p].at = "done"
              => [buf |-> calls[p].buf, err |-> calls[p].err] = Alone(p)

\* The first invocation has returned its object while the second, which
\* will fail on its second key, is between two iterations of a loop.
C16_Witness ==
    /\ calls[1].at = "done"
    /\ calls[1].obj = ObjOfKeys(<<<<97>>, <<65>>>>).m
    /\ calls[1].err = nil
    /\ calls[1].buf = <<123, 34, 65, 34, 58, 34, 65, 34, 44, 34, 97, 34, 58, 34, 97, 34, 125>>
    /\ calls[2].obj = ObjOfKeys(<<<<240, 159, 152, 128>>, <<255>>>>).m
    /\ calls[2].at \in {"lower", "write"}
    /\ calls[2].i = 2
    /\ calls[2].buf = <<91, 123>>


----------------------------------------------------------------------------
(* UTF-16 lowering.                                                        *)

\* C17: appendUTF16 returns ErrInvalidUTF8 exactly when appendString does,
\* and no other error; it lowers the literal EF BF BD to the one unit FFFD;
\* a string it accepts is well-formed UTF-8, so no malformed byte has become
\* FFFD.
C17_LoweringRejects ==
    pc = "appendUTF16"
        => /\ err \in {nil, ErrInvalidUTF8}
           /\ (err = ErrInvalidUTF8) <=> (appendString(<<>>, val.s).err = ErrInvalidUTF8)
           /\ val.s = <<239, 191, 189>> => (err = nil /\ out = dst \o <<65533>>)
           /\ err = nil => WellFormedUTF8(val.s)

\* C18: for every well-formed UTF-8 string, appendUTF16 succeeds, leaves the
\* units of buf in place and appends after them, in order, the scalar value
\* of every character below U+10000 and the surrogate pair of every other,
\* and the count it returns is the number of units it appended.
C18_LoweringResult ==
    (pc = "appendUTF16" /\ WellFormedUTF8(val.s))
        => /\ err = nil
           /\ out = dst \o Utf16Of(val.s)
           /\ count = Len(out) - Len(dst)

\* U+10410 lowered behind two units.
C18_Witness ==
    /\ pc = "appendUTF16"
    /\ build = "utf16_csu"
    /\ val.s = <<240, 144, 144, 144>>
    /\ dst = <<65, 55357>>
    /\ err = nil
    /\ out = <<65, 55357, 55297, 56336>>
    /\ count = 2

\* C19: whenever appendUTF16 returns ErrInvalidUTF8 the count is 0 and the
\* buffer returned is the buffer of entry, with no unit of the rejected
\* string.
C19_LoweringFailure ==
    (pc = "appendUTF16" /\ err = ErrInvalidUTF8) => (count = 0 /\ out = dst)


----------------------------------------------------------------------------
(* Fail-fast in sequences.                                                 *)

\* The indexes of the elements of a that cannot be encoded.
Failing(a) == {j \in 1..Len(a) : Faults(a[j]) # {}}

\* The lowest of them.
FirstFailing(a) == CHOOSE j \in Failing(a) : \A h \in Failing(a) : j <= h

\* C20: the loop of appendSlice never reaches an element after one that
\* cannot be encoded; when elements cannot be encoded the invocation ends at
\* the one of lowest index, with that element's error and the buffer as it
\* was given; and the invocation returns what appendSlice returns.
C20_FailFast ==
    /\ calls[1].at = "loop"
          => \A j \in 1..(calls[1].i - 1) : j \notin Failing(calls[1].a)
    /\ calls[1].at = "done"
          => /\ [buf |-> calls[1].buf, err |-> calls[1].err]
                    = appendSlice(calls[1].dst, calls[1].a)
             /\ (calls[1].err # nil) <=> (Failing(calls[1].a) # {})
             /\ calls[1].err # nil
                   => /\ calls[1].i = FirstFailing(calls[1].a)
                      /\ Faults(calls[1].a[calls[1].i]) = {calls[1].err}
                      /\ calls[1].buf = calls[1].dst

\* [true, NaN, func]: the second element's error, the third never reached.
C20_Witness ==
    /\ calls[1].at = "done"
    /\ calls[1].a = <<[t |-> "bool", b |-> TRUE], [t |-> "float64", f |-> NaN],
                      [t |-> "func()"]>>
    /\ calls[1].dst = <<91>>
    /\ calls[1].i = 2
    /\ calls[1].err = ErrNaN
    /\ calls[1].buf = <<91>>


----------------------------------------------------------------------------
(* The buffer given to Append.                                             *)

\* C21: Append returns the error it returns for the same value on the empty
\* buffer and, on success, the bytes of dst followed by the bytes it appends
\* to the empty buffer for that value.
C21_BufferPrefix ==
    pc = "Append"
        => LET alone == JcsAppend(<<>>, val)
           IN  /\ err = alone.err
               /\ err = nil => /\ out = dst \o alone.buf
                               /\ SubSeq(out, 1, Len(dst)) = dst

\* [ then {"a":true,"b":"a"}.
C21_Witness ==
    /\ pc = "Append"
    /\ dst = <<91>>
    /\ val = Obj(<<[k |-> <<98>>, v |-> Str(<<97>>)],
                   [k |-> <<97>>, v |-> [t |-> "bool", b |-> TRUE]]>>)
    /\ err = nil
    /\ out = <<91, 123, 34, 97, 34, 58, 116, 114, 117, 101, 44,
               34, 98, 34, 58, 34, 97, 34, 125>>


----------------------------------------------------------------------------
(* The error of an object.                                                 *)

\* The entries of m whose key is not well-formed UTF-8.
BadKeys(m) == {i \in 1..Len(m) : ~WellFormedUTF8(m[i].k)}

\* The places, in the order p, of the entries of m whose value fails.
FailingAt(m, p) == {i \in 1..Len(m) : Faults(m[p[i]].v) # {}}

\* The error of the failing entry of m that comes first in the order p,
\* nil when no entry fails.
FirstFault(m, p) ==
    IF FailingAt(m, p) = {} THEN {nil}
    ELSE Faults(m[p[CHOOSE i \in FailingAt(m, p) : \A h \in FailingAt(m, p) : i <= h]].v)

\* The map m ranged over in the order q.
Ranged(m, q) == [i \in 1..Len(m) |-> m[q[i]]]

\* C22: the error appendObject returns for a map is ErrInvalidUTF8 when a key
\* is malformed, whatever the values; otherwise it is the error of the
\* failing entry least in the UTF-16 order of the keys, nil when none fails;
\* it is the same in whatever order the map is ranged over; and no two keys
\* of the map are lowered to the same units.
C22_ErrorDeterminism ==
    (pc # "ready")
        => /\ BadKeys(val.m) # {} => err = ErrInvalidUTF8
           /\ BadKeys(val.m) = {} => FirstFault(val.m, KeyOrder(val.m)) = {err}
           /\ \A q \in Orders(Len(val.m)) :
                 appendObject(dst, Ranged(val.m, q)).err = err
           /\ \A i, j \in 1..Len(val.m) :
                 (i # j /\ lowerKey(<<>>, val.m[i].k).err = nil
                        /\ lowerKey(<<>>, val.m[j].k).err = nil)
                     => lowerKey(<<>>, val.m[i].k).buf # lowerKey(<<>>, val.m[j].k).buf

\* The same statement for the build that links the appendUTF16 of
\* utf8.DecodeRuneInString alone.
C22_InDecodingBuild == (build = "utf16") => C22_ErrorDeterminism


----------------------------------------------------------------------------
(* The ASCII bytes of a string.                                            *)

\* 0x20-0x7F without '"' and '\'.
Verbatim == (32..127) \ {34, 92}

\* What stands for the ASCII byte c in a JSON string: c itself, or an
\* escape, which begins with '\'.
AsciiPiece(c) == IF c \in Verbatim THEN <<c>> ELSE CanonChar(c)

RECURSIVE AsciiPieces(_, _)
AsciiPieces(s, i) ==
    IF i > Len(s) THEN <<>> ELSE AsciiPiece(s[i]) \o AsciiPieces(s, i + 1)

----------------------------------------------------------------------------
(* Nil values.                                                             *)

IsNil(v) == "null" \in DOMAIN v /\ v.null

\* The text of an empty container of v's type.
EmptyText(v) == IF v.t = "map[string]any" THEN <<123, 125>> ELSE <<91, 93>>

\* C24: Append writes null for the untyped nil and for no other value; a nil
\* map[string]any is written {} and a nil slice of each type of the switch
\* [], without an error, at the top and inside an array or an object; a nil
\* value of any other type is refused.
C24_NilContainers ==
    pc = "Append"
        => /\ (err = nil /\ appended = NullText) <=> (val.t = "nil")
           /\ (IsNil(val) /\ IsContainer(val))
                 => (err = nil /\ appended = EmptyText(val))
           /\ (IsNil(val) /\ ~IsContainer(val))
                 => (err = ErrUnsupportedType /\ out = dst)
           /\ \A x \in NilContainers :
                 /\ val = Arr(<<x>>)
                       => (err = nil /\ appended = <<91>> \o EmptyText(x) \o <<93>>)
                 /\ val = Arr(<<[t |-> "nil"], x>>)
                       => (err = nil
                           /\ appended = <<91>> \o NullText \o <<44>> \o EmptyText(x) \o <<93>>)
                 /\ val = Obj(<<[k |-> NullText, v |-> x]>>)
                       => (err = nil
                           /\ appended = <<123, 34>> \o NullText \o <<34, 58>>
                                            \o EmptyText(x) \o <<125>>)

\* The nil []string under the key "null", after a byte of the caller's.
C24_Witness ==
    /\ pc = "Append"
    /\ dst = <<91>>
    /\ val = Obj(<<[k |-> NullText, v |-> [t |-> "[]string", a |-> <<>>, null |-> TRUE]]>>)
    /\ err = nil
    /\ out = <<91, 123, 34, 110, 117, 108, 108, 34, 58, 91, 93, 125>>


----------------------------------------------------------------------------
(* Termination.                                                            *)

\* The values v holds directly: the elements of a slice, the values of a map.
Children(v) ==
    IF v.t \in SliceTypes THEN {v.a[i] : i \in 1..Len(v.a)}
    ELSE IF v.t = "map[string]any" THEN {v.m[i].v : i \in 1..Len(v.m)}
    ELSE {}

\* The value of the call of Append that the call in frame k was made under:
\* that of the frame below, or of the one below appendSlice or appendObject.
CallerValue(k) == IF calls[k - 1].fn = "Append" THEN calls[k - 1].v ELSE calls[k - 2].v

\* Every call of Append but the first is made on a value held by the value
\* of the call it was made under.
SubValueCalls ==
    \A k \in 2..Len(calls) :
        calls[k].fn = "Append" => calls[k].v \in Children(CallerValue(k))

\* The same, or the call is the one Append makes on the float64 conversion
\* of an integer or a float32, and that call makes no call.
ConvertingCalls ==
    \A k \in 2..Len(calls) :
        calls[k].fn = "Append"
            => \/ calls[k].v \in Children(CallerValue(k))
               \/ /\ calls[k - 1].fn = "Append"
                  /\ calls[k - 1].v.t \in IntTypes \cup {"float32"}
                  /\ calls[k].v.t = "float64"
                  /\ k = Len(calls)

\* An iteration of the loop of appendString or appendUTF16 that does not
\* return goes on from a later byte.
LoopsConsume ==
    (pc = "running" /\ Top.fn \in {"appendString", "appendUTF16"} /\ Top.at = "loop"
        /\ Len(calls') >= Len(calls))
        => calls'[Len(calls)].i > Top.i

\* appendObject goes through its keys one after the other, once to lower
\* them and once to write them.
KeysOnce ==
    (pc = "running" /\ Top.fn = "appendObject" /\ Len(calls') >= Len(calls))
        => calls'[Len(calls)].i =
              (IF Top.at \in {"lowered", "valued"} THEN Top.i + 1
               ELSE IF Top.at = "lower" /\ Top.i > Len(Top.obj) THEN 1
               ELSE Top.i)

\* The call run step by step returns what Append returns.
StepsAgree == pc = "done" => [buf |-> out, err |-> err] = JcsAppend(dst, val)

\* C25 as stated: the call returns, each iteration of the scanning loops
\* consumes a byte, appendObject visits each key once, and every recursive
\* call is made on a strict sub-value.
C25_AsStated ==
    /\ <>(pc = "done")
    /\ [][LoopsConsume /\ KeysOnce]_vars
    /\ [](SubValueCalls /\ StepsAgree)

\* C25: the call returns, each iteration of the scanning loops consumes a
\* byte, appendObject visits each key once, and every recursive call is made
\* on a strict sub-value or on the float64 conversion of an integer or a
\* float32, which is encoded without a further call.
C25_Termination ==
    /\ <>(pc = "done")
    /\ [][LoopsConsume /\ KeysOnce]_vars
    /\ [](ConvertingCalls /\ StepsAgree)

\* The call has returned, after the caller's byte, the array of the string
\* U+FFFD and of 0: the loop went past U+FFFD and the integer was converted.
C25_Witness ==
    /\ pc = "done"
    /\ build = "utf16"
    /\ val = Arr(<<Str(<<239, 191, 189>>), [t |-> "int", neg |-> FALSE, mag |-> <<0>>]>>)
    /\ calls = <<>>
    /\ err = nil
    /\ out = <<91, 91, 34, 239, 191, 189, 34, 44, 48, 93>>

====
